---------------------------- MODULE Spec2Model ----------------------------
(***************************************************************************)
(* A model of the resume generator (src/resume_generator.py): the cell     *)
(* parsers of the spreadsheet reader, the row readers, the style resolver, *)
(* the document assembler with its output files and PDF conversion, the    *)
(* preview, and the /generate requests of src/main.py.                     *)
(*                                                                         *)
(* Text is a sequence of one-character strings.  Characters outside ASCII  *)
(* are written by their code point: "u2022" is the bullet U+2022.          *)
(***************************************************************************)
EXTENDS Integers, Sequences, FiniteSets, TLC

VARIABLES
    cell,       \* the cell value handed to a cell parser
    res,        \* what the parser returned
    sheet,      \* the rows of the sheet a row reader scans
    company,    \* the company argument of read_work_experience
    rd,         \* what the row reader returned
    defws,      \* the Defaults sheet of the workbook
    styles,     \* what read_defaults returned
    wb,         \* the workbook of a generation request
    gen,        \* the result of create_resume_from_file
    env,        \* what the generation meets outside: credential, conversion
                \* service, file system
    preview,    \* the result of preview_resume_content
    clock,      \* the wall clock, in microseconds
    reqs,       \* the /generate requests of the API and their answers
    file_storage,   \* the registry of the generated files (src/main.py)
    doc,        \* the document a builder is called with, and what it made of it
    usage,      \* the rows of the user_usage table
    ru,         \* the record_usage and check_usage calls and where they are
    day         \* the day of January 2026 that date.today() returns

vars == <<cell, res, sheet, company, rd, defws, styles, wb, gen,
          env, preview, clock, reqs, file_storage, doc, usage, ru, day>>

-----------------------------------------------------------------------------
(* Bounds of the model *)

\* most whitespace characters put before and after a cell's text
MaxPad == 1

\* the filled rows of the sheet a row reader scans; every row below is blank
MaxRows == 3

\* the filled rows of the Defaults sheet (of its rows 3..11)
MaxDefaultsRows == 2

\* the sheets of the template a workbook may lack
MaxMissing == 1

\* the filled rows of the Contact_Info sheet (of its rows 4..14)
MaxContactRows == 2

\* the filled rows of the Work_Roles sheet (of its rows 4..100)
MaxRoleRows == 3

\* the /generate requests
MaxRequests == 2

\* the seconds the clock runs for
MaxSeconds == 1

\* the filled rows of the Education sheet (of its rows 4..50)
MaxEduRows == 2

\* the filled rows of the Order sheet
MaxOrderRows == 2
MaxCalls == 3

-----------------------------------------------------------------------------
(* Text *)

Whitespace == {" ", "\t"}

LowerCase == <<"a","b","c","d","e","f","g","h","i","j","k","l","m",
               "n","o","p","q","r","s","t","u","v","w","x","y","z">>
UpperCase == <<"A","B","C","D","E","F","G","H","I","J","K","L","M",
               "N","O","P","Q","R","S","T","U","V","W","X","Y","Z">>

\* str.upper() on one character
UpperChar(c) ==
    IF \E i \in 1..26 : LowerCase[i] = c
    THEN UpperCase[CHOOSE i \in 1..26 : LowerCase[i] = c]
    ELSE c

\* str.upper()
Upper(s) == [i \in 1..Len(s) |-> UpperChar(s[i])]

RECURSIVE LStrip(_)
LStrip(s) ==
    IF s # <<>> /\ Head(s) \in Whitespace THEN LStrip(Tail(s)) ELSE s

RECURSIVE RStrip(_)
RStrip(s) ==
    IF s # <<>> /\ s[Len(s)] \in Whitespace
    THEN RStrip(SubSeq(s, 1, Len(s) - 1))
    ELSE s

\* str.strip()
Strip(s) == RStrip(LStrip(s))

Digits == <<"0","1","2","3","4","5","6","7","8","9">>

IsDigit(c) == \E i \in 1..10 : Digits[i] = c

DigitValue(c) == (CHOOSE i \in 1..10 : Digits[i] = c) - 1

RECURSIVE StrNat(_)
StrNat(n) ==
    IF n < 10 THEN <<Digits[n + 1]>>
    ELSE StrNat(n \div 10) \o <<Digits[(n % 10) + 1]>>

\* str() of an int
StrInt(n) == IF n < 0 THEN <<"-">> \o StrNat(0 - n) ELSE StrNat(n)

\* a number zero-padded to w digits (strftime's %Y, %m and %d)
RECURSIVE ZeroPad(_, _)
ZeroPad(s, w) == IF Len(s) >= w THEN s ELSE ZeroPad(<<"0">> \o s, w)

-----------------------------------------------------------------------------
(* Cell values: what openpyxl hands back for a cell *)

NoneCell     == [kind |-> "none",  s |-> <<>>, n |-> 0, m |-> 0]
StrCell(t)   == [kind |-> "str",   s |-> t,    n |-> 0, m |-> 0]
IntCell(i)   == [kind |-> "int",   s |-> <<>>, n |-> i, m |-> 0]
\* the float i.d (one decimal digit d), i >= 0
FloatCell(i, d) == [kind |-> "float", s |-> <<>>, n |-> i, m |-> d]
\* a datetime at midnight of the first day of month mo of year y
DateCell(y, mo) == [kind |-> "date", s |-> <<>>, n |-> y, m |-> mo]

\* str(value) for a value that is not None
PyStr(v) ==
    CASE v.kind = "str"   -> v.s
      [] v.kind = "int"   -> StrInt(v.n)
      [] v.kind = "float" -> StrNat(v.n) \o <<".">> \o StrNat(v.m)
      [] v.kind = "date"  -> ZeroPad(StrNat(v.n), 4) \o <<"-">>
                              \o ZeroPad(StrNat(v.m), 2)
                              \o <<"-","0","1"," ","0","0",":","0","0",":","0","0">>
      [] OTHER            -> <<"N","o","n","e">>

\* bool(value)
Truthy(v) ==
    CASE v.kind = "none"  -> FALSE
      [] v.kind = "str"   -> v.s # <<>>
      [] v.kind = "int"   -> v.n # 0
      [] v.kind = "float" -> v.n # 0 \/ v.m # 0
      [] OTHER            -> TRUE

safe_str(value) ==
    IF value.kind = "none" \/ (value.kind = "str" /\ value.s = <<>>)
    THEN <<>>
    ELSE Strip(PyStr(value))

-----------------------------------------------------------------------------
(* The cell parsers *)

default_include_upper_missing(value) ==
    IF safe_str(value) \in {<<"Y","E","S">>, <<"Y">>} THEN "Yes" ELSE "No"

default_include(value) ==
    LET val == Upper(safe_str(value))
    IN  IF val \in {<<"Y","E","S">>, <<"Y">>} THEN "Yes" ELSE "No"

\* int(text): optional whitespace, an optional sign, decimal digits
IntOfText(s) ==
    LET t      == Strip(s)
        signed == t # <<>> /\ Head(t) \in {"+", "-"}
        ds     == IF signed THEN Tail(t) ELSE t
        val[i \in 0..Len(ds)] ==
            IF i = 0 THEN 0 ELSE 10 * val[i - 1] + DigitValue(ds[i])
    IN  IF ds # <<>> /\ \A i \in 1..Len(ds) : IsDigit(ds[i])
        THEN [ok |-> TRUE,
              n  |-> IF signed /\ Head(t) = "-" THEN 0 - val[Len(ds)]
                     ELSE val[Len(ds)]]
        ELSE [ok |-> FALSE, n |-> 0]

\* int(value); ok is FALSE where Python raises ValueError or TypeError
PyInt(value) ==
    CASE value.kind = "int"   -> [ok |-> TRUE, n |-> value.n]
      [] value.kind = "float" -> [ok |-> TRUE, n |-> value.n]
      [] value.kind = "str"   -> IntOfText(value.s)
      [] OTHER                -> [ok |-> FALSE, n |-> 0]

\* the order a blank or unparsable cell gets
LastOrder == 9999

default_order_zero_on_error(value) ==
    IF value.kind = "none" \/ safe_str(value) = <<>>
    THEN [raised |-> FALSE, n |-> LastOrder]
    ELSE IF PyInt(value).ok
         THEN [raised |-> FALSE, n |-> PyInt(value).n]
         ELSE [raised |-> FALSE, n |-> 0]

\* raised is TRUE where an exception leaves the function
default_order(value) ==
    IF value.kind = "none" \/ safe_str(value) = <<>>
    THEN [raised |-> FALSE, n |-> LastOrder]
    ELSE IF PyInt(value).ok
         THEN [raised |-> FALSE, n |-> PyInt(value).n]
         ELSE [raised |-> FALSE, n |-> LastOrder]

\* the list literal of strip_bullet_prefix, as the file holds it: the glyphs
\* are stored as three-character strings, "-" and "*" as one character
bullets ==
    { <<"u201A","u00C4","u00A2">>, <<"u201A","u00F3","u00E8">>,
      <<"u201A","u00F3","u00E3">>, <<"u201A","u00F3","u00B6">>,
      <<"u201A","u00F1","u2122">>, <<"u201A","u00F1","u00B4">>,
      <<"u201A","u00F1","u2020">>, <<"u201A","u00F1","u00B0">>,
      <<"-">>, <<"*">>,
      <<"u201A","u00DC","u00ED">>, <<"u201A","u00E1","u00ED">>,
      <<"u201A","u00F1","u222B">>, <<"u201A","u00F1","u220F">> }

\* text is a str; falsy text is returned as it is
strip_bullet_prefix(text) ==
    IF text = <<>> THEN text
    ELSE LET result == Strip(text)
         IN  IF result # <<>> /\ <<result[1]>> \in bullets
             THEN Strip(Tail(result))
             ELSE result

\* strftime's %b
MonthAbbr ==
    << <<"J","a","n">>, <<"F","e","b">>, <<"M","a","r">>, <<"A","p","r">>,
       <<"M","a","y">>, <<"J","u","n">>, <<"J","u","l">>, <<"A","u","g">>,
       <<"S","e","p">>, <<"O","c","t">>, <<"N","o","v">>, <<"D","e","c">> >>

\* value.strftime("%b %Y")
Strftime_bY(value) ==
    MonthAbbr[value.m] \o <<" ">> \o ZeroPad(StrNat(value.n), 4)

Present == <<"P","r","e","s","e","n","t">>

format_date_numeric_month(value) ==
    LET val == Upper(safe_str(value))
    IN  IF val = Upper(Present) THEN Present
        ELSE IF value.kind = "date"
             THEN ZeroPad(StrNat(value.m), 2) \o <<" ">> \o ZeroPad(StrNat(value.n), 4)
             ELSE safe_str(value)

format_date(value) ==
    LET val == Upper(safe_str(value))
    IN  IF val = Upper(Present) THEN Present
        ELSE IF Truthy(value) /\ value.kind = "date"
             THEN Strftime_bY(value)
             ELSE safe_str(value)

-----------------------------------------------------------------------------
(* The cells the parsers are tried on *)

RECURSIVE CaseVariants(_)
CaseVariants(w) ==
    IF w = <<>> THEN {<<>>}
    ELSE {<<c>> \o r : c \in {Head(w), UpperChar(Head(w))},
                       r \in CaseVariants(Tail(w))}

RECURSIVE Pads(_)
Pads(k) ==
    IF k = 0 THEN {<<>>}
    ELSE Pads(k - 1) \cup {<<c>> \o p : c \in Whitespace, p \in Pads(k - 1)}

Words ==
    UNION {CaseVariants(w) : w \in
             { <<"y","e","s">>, <<"y">>, <<"n","o">>, <<"y","e">>,
               <<"y","e","s","s">>, <<"p","r","e","s","e","n","t">>,
               <<"p","r","e","s","e","n","t","s">>, <<"t","b","d">> }}

Numerals ==
    { <<"0">>, <<"7">>, <<"1","2">>, <<"-","3">>, <<"+","4">>, <<"0","0","7">>,
      <<"3",".","5">>, <<"1","e","3">>, <<"1","2","a">>, <<"9","9","9","9">>,
      <<"1"," ","2">>, <<"-">>, <<"+">> }

BulletTexts ==
    { <<"-"," ","x">>, <<"*","x">>, <<"-","-"," ","x">>, <<"-"," ","*","x">>,
      <<"u2022"," ","x">>, <<"u2022","x">>, <<"u25CF"," ","x">>,
      <<"u2192"," ","x">>, <<"u2022","-","x">>,
      <<"u201A","u00C4","u00A2"," ","x">>, <<"u201A","x">>,
      <<"x">>, <<"x"," ","-"," ","y">>, <<"x","*">>, <<"*">> }

Texts ==
    {<<>>} \cup
    {a \o w \o b : a \in Pads(MaxPad), b \in Pads(MaxPad),
                   w \in Words \cup Numerals \cup BulletTexts}

CellInputs ==
    {NoneCell}
    \cup {StrCell(t) : t \in Texts}
    \cup {IntCell(i) : i \in {-3, 0, 1, 12, 2023, 9999}}
    \cup {FloatCell(i, d) : i \in {0, 2}, d \in {0, 5}}
    \cup {DateCell(y, mo) : y \in {1999, 2023}, mo \in 1..12}

NoRes == [fn |-> "none", inc |-> "No", n |-> 0, txt |-> <<>>, raised |-> FALSE]

NoRead == [fn |-> "none", rows |-> <<>>]
NoStyles == [fn |-> "none", raised |-> FALSE, defaults |-> <<>>]
NoWorkbook ==
    [valid |-> TRUE, sheets |-> {}, order |-> <<>>, contact |-> <<>>,
     roles |-> <<>>, education |-> <<>>, skills |-> <<>>,
     summary |-> [inc |-> NoneCell, text |-> NoneCell]]
NoGen == [fn |-> "none"]
NoEnv ==
    [api_key |-> FALSE, create |-> "201", upload |-> "ok", poll_at |-> 1,
     poll |-> "finished", download |-> "ok", save_ok |-> TRUE,
     remove_ok |-> TRUE]
NoPreview == [fn |-> "none"]
NoDoc == [fn |-> "none", before |-> <<>>, paragraphs |-> <<>>]

\* nothing of the API is in use
ApiIdle ==
    /\ env = NoEnv /\ preview = NoPreview
    /\ clock = 0 /\ reqs = <<>> /\ file_storage = <<>>
    /\ doc = NoDoc /\ usage = <<>> /\ ru = <<>> /\ day = 1

CellInit ==
    /\ cell \in CellInputs
    /\ res = NoRes
    /\ sheet = <<>> /\ company = <<>> /\ rd = NoRead
    /\ defws = <<>> /\ styles = NoStyles
    /\ wb = NoWorkbook /\ gen = NoGen
    /\ ApiIdle

CellFrame ==
    UNCHANGED <<cell, sheet, company, rd, defws, styles, wb, gen,
                env, preview, clock, reqs, file_storage, doc, usage, ru, day>>

CallDefaultInclude ==
    /\ res' = [NoRes EXCEPT !.fn = "default_include",
                            !.inc = default_include(cell)]
    /\ CellFrame

CallDefaultOrder ==
    /\ res' = [NoRes EXCEPT !.fn = "default_order",
                            !.n = default_order(cell).n,
                            !.raised = default_order(cell).raised]
    /\ CellFrame

\* the readers hand strip_bullet_prefix a str
CallStripBulletPrefix ==
    /\ cell.kind = "str"
    /\ res' = [NoRes EXCEPT !.fn = "strip_bullet_prefix",
                            !.txt = strip_bullet_prefix(cell.s)]
    /\ CellFrame

CallFormatDate ==
    /\ res' = [NoRes EXCEPT !.fn = "format_date",
                            !.txt = format_date(cell)]
    /\ CellFrame

CellNext ==
    \/ CallDefaultInclude
    \/ CallDefaultOrder
    \/ CallStripBulletPrefix
    \/ CallFormatDate

CellSpec == CellInit /\ [][CellNext]_vars

-----------------------------------------------------------------------------
(* The row readers.  A row is the cells a reader looks at, by role:         *)
(*   read_bullet_section   text B, inc C, ord D           (rows 4..200)     *)
(*   read_work_experience  comp B, text C, inc D, ord E   (rows 4..200)     *)
(*   read_skills           text col, inc col+1, ord col+2 (rows 4..50)      *)
(* The sheet holds MaxRows rows from row 4 on; the rows below them are      *)
(* blank, so a scan of them appends nothing.                                *)

InsertSorted_unstable(sorted, item) ==
    LET k == Cardinality({i \in 1..Len(sorted) : sorted[i][1] < item[1]})
    IN  SubSeq(sorted, 1, k) \o <<item>> \o SubSeq(sorted, k + 1, Len(sorted))

\* bullets.sort(key=lambda x: x[0]) puts one more item in place: the sort is
\* stable, so the item goes behind the items of the same order
InsertSorted(sorted, item) ==
    LET k == Cardinality({i \in 1..Len(sorted) : sorted[i][1] <= item[1]})
    IN  SubSeq(sorted, 1, k) \o <<item>> \o SubSeq(sorted, k + 1, Len(sorted))

\* list.sort(key=lambda x: x[0]) of a list of (order, text) pairs
RECURSIVE SortByOrder(_)
SortByOrder(items) ==
    IF items = <<>> THEN <<>>
    ELSE InsertSorted(SortByOrder(SubSeq(items, 1, Len(items) - 1)),
                      items[Len(items)])

\* [b[1] for b in bullets]
TextsOf(items) == [i \in 1..Len(items) |-> items[i][2]]

\* the loop of read_bullet_section from row i on: the (order, text) pairs
\* appended; a blank text cell ends the scan
RECURSIVE ScanBulletSection(_, _)
ScanBulletSection(ws, i) ==
    IF i > Len(ws) THEN <<>>
    ELSE LET bullet_text == safe_str(ws[i].text)
             include     == default_include(ws[i].inc)
             order       == default_order(ws[i].ord).n
         IN  IF bullet_text = <<>> THEN <<>>
             ELSE IF include = "Yes" /\ bullet_text # <<>>
                  THEN <<<<order, bullet_text>>>> \o ScanBulletSection(ws, i + 1)
                  ELSE ScanBulletSection(ws, i + 1)

read_bullet_section(ws) == TextsOf(SortByOrder(ScanBulletSection(ws, 1)))

RECURSIVE ScanWorkExperience_every_company(_, _, _)
ScanWorkExperience_every_company(ws, comp_arg, i) ==
    IF i > Len(ws) THEN <<>>
    ELSE LET bullet_text == safe_str(ws[i].text)
             include     == default_include(ws[i].inc)
             order       == default_order(ws[i].ord).n
         IN  IF include = "Yes" /\ bullet_text # <<>>
             THEN <<<<order, strip_bullet_prefix(bullet_text)>>>>
                      \o ScanWorkExperience_every_company(ws, comp_arg, i + 1)
             ELSE ScanWorkExperience_every_company(ws, comp_arg, i + 1)

\* the loop of read_work_experience from row i on
RECURSIVE ScanWorkExperience(_, _, _)
ScanWorkExperience(ws, comp_arg, i) ==
    IF i > Len(ws) THEN <<>>
    ELSE LET comp        == safe_str(ws[i].comp)
             bullet_text == safe_str(ws[i].text)
             include     == default_include(ws[i].inc)
             order       == default_order(ws[i].ord).n
         IN  IF comp # comp_arg THEN ScanWorkExperience(ws, comp_arg, i + 1)
             ELSE IF include = "Yes" /\ bullet_text # <<>>
                  THEN <<<<order, strip_bullet_prefix(bullet_text)>>>>
                           \o ScanWorkExperience(ws, comp_arg, i + 1)
                  ELSE ScanWorkExperience(ws, comp_arg, i + 1)

read_work_experience(ws, comp_arg) ==
    TextsOf(SortByOrder(ScanWorkExperience(ws, comp_arg, 1)))

\* the loop of read_skills, for the columns of one category, from row i on
RECURSIVE ScanSkills(_, _)
ScanSkills(ws, i) ==
    IF i > Len(ws) THEN <<>>
    ELSE LET skill   == safe_str(ws[i].text)
             include == default_include(ws[i].inc)
             order   == default_order(ws[i].ord).n
         IN  IF include = "Yes" /\ skill # <<>>
             THEN <<<<order, skill>>>> \o ScanSkills(ws, i + 1)
             ELSE ScanSkills(ws, i + 1)

read_skills(ws) == TextsOf(SortByOrder(ScanSkills(ws, 1)))

Acme == <<"A","c","m","e">>
Beta == <<"B","e","t","a">>

Row(c, t, i, o) == [comp |-> StrCell(c), text |-> t, inc |-> i, ord |-> o]

\* the rows a sheet is filled with: blank, included and excluded rows of
\* Acme under three order cells, and two included rows of Beta
RowInputs ==
    {Row(Acme, ti[1], ti[2], o) :
        ti \in { <<NoneCell, StrCell(<<"Y","e","s">>)>>,
                 <<StrCell(<<"a">>), StrCell(<<"Y","e","s">>)>>,
                 <<StrCell(<<"-"," ","b">>), StrCell(<<"y">>)>>,
                 <<StrCell(<<"a">>), StrCell(<<"N","o">>)>> },
        o \in {IntCell(1), StrCell(<<"2">>), NoneCell}}
    \cup {Row(Beta, StrCell(<<"c">>), StrCell(<<"Y","E","S">>), IntCell(1)),
          Row(Beta, StrCell(<<"*","d">>), StrCell(<<"Y">>), NoneCell)}

ReadInit ==
    /\ sheet \in [1..MaxRows -> RowInputs]
    /\ company = <<>>
    /\ rd = NoRead
    /\ cell = NoneCell /\ res = NoRes
    /\ defws = <<>> /\ styles = NoStyles
    /\ wb = NoWorkbook /\ gen = NoGen
    /\ ApiIdle

ReadFrame ==
    UNCHANGED <<cell, res, sheet, defws, styles, wb, gen,
                env, preview, clock, reqs, file_storage, doc, usage, ru, day>>

CallReadBulletSection ==
    /\ rd' = [fn |-> "read_bullet_section", rows |-> read_bullet_section(sheet)]
    /\ company' = <<>>
    /\ ReadFrame

CallReadWorkExperience ==
    \E c \in {Acme, Beta} :
        /\ rd' = [fn |-> "read_work_experience",
                  rows |-> read_work_experience(sheet, c)]
        /\ company' = c
        /\ ReadFrame

CallReadSkills ==
    /\ rd' = [fn |-> "read_skills", rows |-> read_skills(sheet)]
    /\ company' = <<>>
    /\ ReadFrame

ReadNext ==
    \/ CallReadBulletSection
    \/ CallReadWorkExperience
    \/ CallReadSkills

ReadSpec == ReadInit /\ [][ReadNext]_vars

-----------------------------------------------------------------------------
(* The style resolver *)

\* the labels of the 9 style categories
NameCredentials ==
    <<"N","a","m","e"," ","&"," ","C","r","e","d","e","n","t","i","a",
      "l","s">>
Title ==
    <<"T","i","t","l","e">>
ContactInformation ==
    <<"C","o","n","t","a","c","t"," ","I","n","f","o","r","m","a","t",
      "i","o","n">>
SectionHeaders ==
    <<"S","e","c","t","i","o","n"," ","H","e","a","d","e","r","s">>
CompanySchoolNames ==
    <<"C","o","m","p","a","n","y","/","S","c","h","o","o","l"," ","N",
      "a","m","e","s">>
EmployedEnrolledDates ==
    <<"E","m","p","l","o","y","e","d","/","E","n","r","o","l","l","e",
      "d"," ","D","a","t","e","s">>
JobTitleDegree ==
    <<"J","o","b"," ","T","i","t","l","e","/","D","e","g","r","e","e">>
Location ==
    <<"L","o","c","a","t","i","o","n">>
BodyBullets ==
    <<"B","o","d","y"," ","(","B","u","l","l","e","t","s",")">>

Calibri == <<"C","a","l","i","b","r","i">>

Arial == <<"A","r","i","a","l">>

Style(f, sz, b, it) == [font |-> f, size |-> sz, bold |-> b, italic |-> it]

\* the dict read_defaults starts from
defaults ==
    (NameCredentials :> Style(Calibri, 20, TRUE, FALSE))
    @@ (Title :> Style(Calibri, 14, TRUE, FALSE))
    @@ (ContactInformation :> Style(Calibri, 10, FALSE, FALSE))
    @@ (SectionHeaders :> Style(Calibri, 11, TRUE, FALSE))
    @@ (CompanySchoolNames :> Style(Calibri, 10, TRUE, FALSE))
    @@ (EmployedEnrolledDates :> Style(Calibri, 10, FALSE, FALSE))
    @@ (JobTitleDegree :> Style(Calibri, 10, FALSE, TRUE))
    @@ (Location :> Style(Calibri, 10, FALSE, TRUE))
    @@ (BodyBullets :> Style(Calibri, 10, FALSE, FALSE))

OverlayRow_keeps_flags(d, row) ==
    LET field  == safe_str(row.field)
        font   == safe_str(row.font)
        size   == row.size
        bold   == Upper(safe_str(row.bold))
        italic == Upper(safe_str(row.italic))
    IN  IF field \in DOMAIN d
        THEN [d EXCEPT ![field] =
                 [font   |-> IF font # <<>> THEN font ELSE d[field].font,
                  size   |-> IF Truthy(size) /\ PyInt(size).ok
                             THEN PyInt(size).n ELSE d[field].size,
                  bold   |-> IF bold # <<>> THEN (bold = <<"Y","E","S">>)
                             ELSE d[field].bold,
                  italic |-> (italic = <<"Y","E","S">>)]]
        ELSE d

\* one pass of the loop of read_defaults over a row of the sheet
OverlayRow(d, row) ==
    LET field  == safe_str(row.field)
        font   == safe_str(row.font)
        size   == row.size
        bold   == Upper(safe_str(row.bold))
        italic == Upper(safe_str(row.italic))
    IN  IF field \in DOMAIN d
        THEN [d EXCEPT ![field] =
                 [font   |-> IF font # <<>> THEN font ELSE d[field].font,
                  size   |-> IF Truthy(size) /\ PyInt(size).ok
                             THEN PyInt(size).n ELSE d[field].size,
                  bold   |-> (bold = <<"Y","E","S">>),
                  italic |-> (italic = <<"Y","E","S">>)]]
        ELSE d

RECURSIVE OverlayRows(_, _, _)
OverlayRows(d, rows, i) ==
    IF i > Len(rows) THEN d
    ELSE OverlayRows(OverlayRow(d, rows[i]), rows, i + 1)

read_defaults_unguarded(ws) ==
    IF ws.kind # "sheet"
    THEN [raised |-> TRUE, defaults |-> defaults]
    ELSE [raised |-> FALSE, defaults |-> OverlayRows(defaults, ws.rows, 1)]

\* ws is what the workbook holds under 'Defaults': nothing (wb['Defaults']
\* raises KeyError), a chart sheet (ws.cell raises AttributeError before the
\* first row is read) or a worksheet whose rows 3.. are ws.rows, the rows
\* below them blank.  raised is TRUE where an exception leaves the function.
read_defaults(ws) ==
    IF ws.kind # "sheet"
    THEN [raised |-> FALSE, defaults |-> defaults]
    ELSE [raised |-> FALSE, defaults |-> OverlayRows(defaults, ws.rows, 1)]

DefaultsRow(f, fo, sz, b, it) ==
    [field |-> f, font |-> fo, size |-> sz, bold |-> b, italic |-> it]

\* the (bold, italic) cells a row is filled with
FlagInputs ==
    { <<StrCell(<<"Y","e","s">>), NoneCell>>,
      <<NoneCell, StrCell(<<"y","e","s">>)>>,
      <<StrCell(<<"N","o">>), StrCell(<<"Y">>)>> }

DefaultsRowInputs ==
    {DefaultsRow(StrCell(f), fo, sz, bi[1], bi[2]) :
        f  \in {Title, Location},
        fo \in {NoneCell, StrCell(Arial)},
        sz \in {NoneCell, IntCell(12), IntCell(0), StrCell(<<"1","6">>),
                StrCell(<<"b","i","g">>)},
        bi \in FlagInputs}
    \cup {DefaultsRow(StrCell(<<"F","o","o","t","e","r">>), StrCell(Arial),
                      IntCell(12), StrCell(<<"Y","e","s">>),
                      StrCell(<<"Y","e","s">>))}
    \cup {DefaultsRow(StrCell(Title), NoneCell, IntCell(-5), NoneCell, NoneCell),
          DefaultsRow(StrCell(Location), NoneCell, StrCell(<<"0">>), NoneCell,
                      NoneCell)}

DefaultsSheetInputs ==
    {[kind |-> "absent", rows |-> <<>>], [kind |-> "chart", rows |-> <<>>]}
    \cup {[kind |-> "sheet", rows |-> r] : r \in [1..MaxDefaultsRows -> DefaultsRowInputs]}

DefaultsInit ==
    /\ defws \in DefaultsSheetInputs
    /\ styles = NoStyles
    /\ cell = NoneCell /\ res = NoRes
    /\ sheet = <<>> /\ company = <<>> /\ rd = NoRead
    /\ wb = NoWorkbook /\ gen = NoGen
    /\ ApiIdle

CallReadDefaults ==
    /\ styles.fn = "none"
    /\ styles' = [fn |-> "read_defaults",
                  raised |-> read_defaults(defws).raised,
                  defaults |-> read_defaults(defws).defaults]
    /\ UNCHANGED <<cell, res, sheet, company, rd, defws, wb, gen,
                   env, preview, clock, reqs, file_storage, doc, usage, ru, day>>

DefaultsNext == CallReadDefaults

DefaultsSpec == DefaultsInit /\ [][DefaultsNext]_vars

-----------------------------------------------------------------------------
(* The document assembler: create_resume_from_file *)

\* the names of the sheets of the template
DefaultsSheet ==
    <<"D","e","f","a","u","l","t","s">>
OrderSheet ==
    <<"O","r","d","e","r">>
Contact_Info ==
    <<"C","o","n","t","a","c","t","_","I","n","f","o">>
Summary ==
    <<"S","u","m","m","a","r","y">>
Highlights ==
    <<"H","i","g","h","l","i","g","h","t","s">>
Work_Roles ==
    <<"W","o","r","k","_","R","o","l","e","s">>
Work_Experience ==
    <<"W","o","r","k","_","E","x","p","e","r","i","e","n","c","e">>
Education ==
    <<"E","d","u","c","a","t","i","o","n">>
Licenses_Certifications ==
    <<"L","i","c","e","n","s","e","s","_","C","e","r","t","i","f","i",
      "c","a","t","i","o","n","s">>
Skills ==
    <<"S","k","i","l","l","s">>
Achievements ==
    <<"A","c","h","i","e","v","e","m","e","n","t","s">>
Memberships ==
    <<"M","e","m","b","e","r","s","h","i","p","s">>
Awards ==
    <<"A","w","a","r","d","s">>
Projects ==
    <<"P","r","o","j","e","c","t","s">>
Custom_Section ==
    <<"C","u","s","t","o","m","_","S","e","c","t","i","o","n">>

SheetNames ==
    {DefaultsSheet, OrderSheet, Contact_Info, Summary,
     Highlights, Work_Roles, Work_Experience, Education,
     Licenses_Certifications, Skills, Achievements, Memberships,
     Awards, Projects, Custom_Section}

\* the loop of read_section_order over the rows of the Order sheet from row
\* i on (rows 2..49; the rows below the filled ones are blank)
RECURSIVE ScanSectionOrder(_, _)
ScanSectionOrder(rows, i) ==
    IF i > Len(rows) THEN <<>>
    ELSE LET section_name == safe_str(rows[i].name)
             include      == default_include(rows[i].inc)
         IN  IF section_name = <<>> THEN <<>>
             ELSE IF include = "Yes"
                  THEN <<section_name>> \o ScanSectionOrder(rows, i + 1)
                  ELSE ScanSectionOrder(rows, i + 1)

\* w is the workbook: w.sheets the names of its sheets, w.order the rows of
\* its Order sheet
read_section_order(w) ==
    IF OrderSheet \notin w.sheets
    THEN <<Contact_Info, Summary, Highlights, Work_Roles, Education,
           Licenses_Certifications, Skills, Achievements>>
    ELSE ScanSectionOrder(w.order, 1)

\* the sheets the build loop takes from the workbook with wb[...], in the
\* order of the sections: Work_Experience for Work_Roles, Skills for Skills
RECURSIVE BuildLookups(_)
BuildLookups(section_order) ==
    IF section_order = <<>> THEN <<>>
    ELSE (IF Head(section_order) = Work_Roles THEN <<Work_Experience>>
          ELSE IF Head(section_order) = Skills THEN <<Skills>>
          ELSE <<>>) \o BuildLookups(Tail(section_order))

\* every wb[...] of create_resume_from_file that no "in wb.sheetnames" test
\* guards, in the order they run (lines 910, 988, 996, 1007, 1013)
Lookups(w) ==
    <<Contact_Info, Work_Roles, Education>>
        \o BuildLookups(read_section_order(w))

NoError == <<>>

\* str(e) of the KeyError wb[name] raises: it names the sheet
KeyErrorText(name) ==
    <<"W","o","r","k","s","h","e","e","t"," ">> \o name
        \o <<" ","d","o","e","s"," ","n","o","t"," ","e","x","i","s","t",".">>

\* rows 4..14 of the Contact_Info sheet: the dictionary of the included, non-
\* blank fields; a later row of the same field replaces the earlier one
RECURSIVE ScanContactInfo(_, _, _)
ScanContactInfo(rows, i, contact) ==
    IF i > Len(rows) THEN contact
    ELSE LET field   == safe_str(rows[i].field)
             value   == safe_str(rows[i].value)
             include == default_include(rows[i].inc)
         IN  ScanContactInfo(rows, i + 1,
                 IF include = "Yes" /\ value # <<>>
                 THEN (field :> value) @@ contact
                 ELSE contact)

read_contact_info(ws) == ScanContactInfo(ws, 1, <<>>)

RECURSIVE ScanWorkRoles_every_row(_, _)
ScanWorkRoles_every_row(rows, i) ==
    IF i > Len(rows) THEN <<>>
    ELSE LET comp == safe_str(rows[i].company)
         IN  IF comp = <<>> THEN <<>>
             ELSE <<[company    |-> comp,
                     title      |-> safe_str(rows[i].title),
                     start_date |-> format_date(rows[i].start),
                     end_date   |-> format_date(rows[i].end),
                     location   |-> safe_str(rows[i].location)]>>
                  \o ScanWorkRoles_every_row(rows, i + 1)

\* rows 4..100 of the Work_Roles sheet: the included roles, up to the first
\* row with a blank company
RECURSIVE ScanWorkRoles(_, _)
ScanWorkRoles(rows, i) ==
    IF i > Len(rows) THEN <<>>
    ELSE LET comp    == safe_str(rows[i].company)
             include == default_include(rows[i].inc)
         IN  IF comp = <<>> THEN <<>>
             ELSE IF include = "Yes"
                  THEN <<[company    |-> comp,
                          title      |-> safe_str(rows[i].title),
                          start_date |-> format_date(rows[i].start),
                          end_date   |-> format_date(rows[i].end),
                          location   |-> safe_str(rows[i].location)]>>
                       \o ScanWorkRoles(rows, i + 1)
                  ELSE ScanWorkRoles(rows, i + 1)

read_work_roles(ws) == ScanWorkRoles(ws, 1)

\* Python's str.split(): the maximal runs of characters that are no whitespace
RECURSIVE SplitFrom(_, _)
SplitFrom(s, cur) ==
    IF s = <<>> THEN (IF cur = <<>> THEN <<>> ELSE <<cur>>)
    ELSE IF Head(s) \in Whitespace
         THEN (IF cur = <<>> THEN <<>> ELSE <<cur>>) \o SplitFrom(Tail(s), <<>>)
         ELSE SplitFrom(Tail(s), Append(cur, Head(s)))

split(s) == SplitFrom(s, <<>>)

\* Python's str.replace(old, new) for one-character old and new
replace(s, old, new) == [i \in 1..Len(s) |-> IF s[i] = old THEN new ELSE s[i]]

NameField == <<"N","a","m","e">>
ResumeText == <<"R","e","s","u","m","e">>
UnknownText == <<"U","n","k","n","o","w","n">>

\* dict.get(key, default)
Get(dict, key, default) == IF key \in DOMAIN dict THEN dict[key] ELSE default

base_filename_first_token(contact) ==
    LET full_name  == Get(contact, NameField, ResumeText)
        name_parts == split(full_name)
    IN  IF name_parts = <<>> THEN ResumeText ELSE name_parts[1]

\* the base of the output file names (lines 1025-1034)
base_filename(contact) ==
    LET full_name  == Get(contact, NameField, ResumeText)
        name_parts == split(full_name)
    IN  IF Len(name_parts) >= 2
        THEN name_parts[1] \o <<"_">> \o name_parts[Len(name_parts)]
        ELSE IF full_name # <<>> THEN replace(full_name, " ", "_")
             ELSE ResumeText

\* the clock reads now microseconds after 2026-01-01 00:00:00; the model's
\* clock stays within January
DateOf(now) == 1 + (now \div 1000000) \div 86400
HourOf(now) == ((now \div 1000000) % 86400) \div 3600
MinuteOf(now) == ((now \div 1000000) % 3600) \div 60
SecondOf(now) == (now \div 1000000) % 60

\* datetime.now().strftime("%Y-%m-%d_%H%M%S")
Timestamp(now) ==
    <<"2","0","2","6","-","0","1","-">> \o ZeroPad(StrNat(DateOf(now)), 2)
        \o <<"_">> \o ZeroPad(StrNat(HourOf(now)), 2)
        \o ZeroPad(StrNat(MinuteOf(now)), 2)
        \o ZeroPad(StrNat(SecondOf(now)), 2)

\* datetime.now().strftime("%Y%m%d_%H%M%S_%f")
FileId(now) ==
    <<"2","0","2","6","0","1">> \o ZeroPad(StrNat(DateOf(now)), 2)
        \o <<"_">> \o ZeroPad(StrNat(HourOf(now)), 2)
        \o ZeroPad(StrNat(MinuteOf(now)), 2)
        \o ZeroPad(StrNat(SecondOf(now)), 2)
        \o <<"_">> \o ZeroPad(StrNat(now % 1000000), 6)

\* the section names the build loop has a builder for (lines 1000-1023)
KnownSections ==
    {Contact_Info, Summary, Highlights, Work_Roles, Education,
     Licenses_Certifications, Skills, Achievements, Memberships, Awards,
     Projects, Custom_Section}

RECURSIVE BuildersRun_once_each(_, _)
BuildersRun_once_each(section_order, sheets) ==
    IF section_order = <<>> THEN <<>>
    ELSE LET section_name == Head(section_order)
             rest == BuildersRun_once_each(Tail(section_order), sheets)
         IN  IF section_name = Work_Roles /\ Work_Experience \notin sheets
             THEN <<>>
             ELSE IF section_name = Skills /\ Skills \notin sheets THEN <<>>
             ELSE IF section_name \in KnownSections
                     /\ \A i \in 1..Len(rest) : rest[i] # section_name
                  THEN <<section_name>> \o rest
                  ELSE rest

\* the builders the build loop runs, named by their section, in the order
\* they run; the loop ends at the first wb[...] that raises
RECURSIVE BuildersRun(_, _)
BuildersRun(section_order, sheets) ==
    IF section_order = <<>> THEN <<>>
    ELSE LET section_name == Head(section_order)
         IN  IF section_name = Work_Roles /\ Work_Experience \notin sheets
             THEN <<>>
             ELSE IF section_name = Skills /\ Skills \notin sheets THEN <<>>
             ELSE (IF section_name \in KnownSections THEN <<section_name>>
                   ELSE <<>>) \o BuildersRun(Tail(section_order), sheets)

\* the outcomes of the conversion to PDF
ConvOutcomes ==
    {"no_key", "job_failed", "upload_failed", "finished", "error",
     "timeout", "exception"}

\* for attempt in range(30)
PollAttempts == 30

Poll_past_terminal(e, attempt) ==
    [calls |-> [i \in 1..PollAttempts |-> "poll"],
     out   |-> IF e.poll_at <= PollAttempts THEN e.poll ELSE "timeout"]

\* the polling loop from its attempt-th round on: the requests it sends and
\* how it ends.  The service answers a status that is neither 'finished' nor
\* 'error' before its e.poll_at-th answer, and then e.poll ("raise": the
\* request or the decoding of its answer raises).  The answer to the download
\* is written to the pdf file whatever its status code is (e.download "ok" or
\* "404"), unless the request raises.
RECURSIVE Poll(_, _)
Poll(e, attempt) ==
    IF attempt > PollAttempts THEN [calls |-> <<>>, out |-> "timeout"]
    ELSE IF attempt = e.poll_at THEN [calls |-> <<"poll">>, out |-> e.poll]
    ELSE LET rest == Poll(e, attempt + 1)
         IN  [calls |-> <<"poll">> \o rest.calls, out |-> rest.out]

Convert_always_finished(e) ==
    [calls |-> <<"create_job", "upload", "poll", "download">>,
     out   |-> "finished"]

\* the conversion of the saved docx (lines 1052-1142 and 1152-1156): the
\* requests sent to the service, in order, and the outcome
Convert(e) ==
    IF ~e.api_key THEN [calls |-> <<>>, out |-> "no_key"]
    ELSE IF e.create = "raise"
    THEN [calls |-> <<"create_job">>, out |-> "exception"]
    ELSE IF e.create # "201"
    THEN [calls |-> <<"create_job">>, out |-> "job_failed"]
    ELSE IF e.upload = "raise"
    THEN [calls |-> <<"create_job", "upload">>, out |-> "exception"]
    ELSE IF e.upload # "ok"
    THEN [calls |-> <<"create_job", "upload">>, out |-> "upload_failed"]
    ELSE LET p == Poll(e, 1)
             sent == <<"create_job", "upload">> \o p.calls
         IN  IF p.out = "finished"
             THEN [calls |-> sent \o <<"download">>,
                   out   |-> IF e.download = "raise" THEN "exception"
                             ELSE "finished"]
             ELSE [calls |-> sent,
                   out   |-> IF p.out = "raise" THEN "exception" ELSE p.out]

\* str(e) of what load_workbook raises for a file that is no workbook
LoadErrorText ==
    <<"F","i","l","e"," ","i","s"," ","n","o","t"," ","a"," ","z","i","p",
      " ","f","i","l","e">>

\* str(e) of what doc.save raises when the file cannot be written
SaveErrorText ==
    <<"[","E","r","r","n","o"," ","1","3","]"," ","P","e","r","m","i","s",
      "s","i","o","n"," ","d","e","n","i","e","d">>

Failed_without_error(error, name, built) ==
    [success |-> FALSE, name |-> name, docx_path |-> FALSE,
     pdf_path |-> FALSE, error |-> NoError, filename |-> <<>>,
     built |-> built, work_roles |-> <<>>, calls |-> <<>>,
     docx_file |-> FALSE, pdf_file |-> FALSE, remove_tried |-> FALSE]

\* the result of a generation that raised: the dictionary as it was set up
\* (lines 868-874) with the error text; built are the builders run before
Failed(error, name, built) ==
    [success |-> FALSE, name |-> name, docx_path |-> FALSE,
     pdf_path |-> FALSE, error |-> error, filename |-> <<>>,
     built |-> built, work_roles |-> <<>>, calls |-> <<>>,
     docx_file |-> FALSE, pdf_file |-> FALSE, remove_tried |-> FALSE]

HasDocxPath_when_saved(generate_pdf, generate_docx) ==
    generate_docx \/ generate_pdf

\* whether the result gets a docx_path (lines 1046-1049)
HasDocxPath(generate_pdf, generate_docx) == generate_docx

RemovesDocx_after_every_conversion(generate_docx, pdf_ok) == pdf_ok

\* whether the saved docx is removed after the conversion (lines 1144-1146)
RemovesDocx(generate_docx, pdf_ok) == pdf_ok /\ ~generate_docx

\* docx_path and pdf_path are TRUE where the result holds a path, docx_file
\* and pdf_file where the file is in the output directory at the return.
\* Beside the dictionary returned the record tells what the call did:
\* filename is the stem of the output files, built the builders run,
\* work_roles the roles handed to build_work_experience, calls the requests
\* sent to the conversion service, remove_tried whether os.remove was called.
create_resume_from_file(w, generate_pdf, generate_docx, e, now) ==
    IF ~w.valid THEN Failed(LoadErrorText, <<>>, <<>>)
    ELSE
    LET lookups  == Lookups(w)
        missing  == {i \in 1..Len(lookups) : lookups[i] \notin w.sheets}
        first    == CHOOSE i \in missing : \A j \in missing : i <= j
        contact  == read_contact_info(w.contact)
        built    == BuildersRun(read_section_order(w), w.sheets)
        filename == base_filename(contact) \o <<"_">> \o Timestamp(now)
        conv     == IF generate_pdf THEN Convert(e)
                    ELSE [calls |-> <<>>, out |-> "none"]
        pdf_ok   == conv.out = "finished"
        cleanup  == RemovesDocx(generate_docx, pdf_ok)
    IN  IF missing # {}
        THEN Failed(KeyErrorText(lookups[first]), <<>>,
                    IF first <= 3 THEN <<>> ELSE built)
        ELSE IF (generate_docx \/ generate_pdf) /\ ~e.save_ok
        THEN Failed(SaveErrorText, base_filename(contact), built)
        ELSE [success |-> TRUE,
              name |-> base_filename(contact),
              docx_path |-> HasDocxPath(generate_pdf, generate_docx),
              pdf_path |-> pdf_ok,
              error |-> NoError,
              filename |-> filename,
              built |-> built,
              work_roles |-> read_work_roles(w.roles),
              calls |-> conv.calls,
              docx_file |-> (generate_docx \/ generate_pdf)
                             /\ ~(cleanup /\ e.remove_ok),
              pdf_file |-> pdf_ok,
              remove_tried |-> cleanup]

\* the dictionary preview_resume_content returns; error is NoError where the
\* dictionary has no 'error' key
preview_resume_content(w) ==
    LET contact == read_contact_info(w.contact)
        Raised(error) ==
            [success |-> FALSE, name |-> <<>>, sections_included |-> <<>>,
             total_work_roles |-> 0, error |-> error]
    IN  IF ~w.valid THEN Raised(LoadErrorText)
        ELSE IF Contact_Info \notin w.sheets
        THEN Raised(KeyErrorText(Contact_Info))
        ELSE IF Work_Roles \notin w.sheets
        THEN Raised(KeyErrorText(Work_Roles))
        ELSE [success |-> TRUE,
              name |-> Get(contact, NameField, UnknownText),
              sections_included |-> read_section_order(w),
              total_work_roles |-> Len(read_work_roles(w.roles)),
              error |-> NoError]

\* the rows an Order sheet is filled with
OrderRowInputs ==
    {[name |-> StrCell(n), inc |-> StrCell(<<"Y","e","s">>)] :
        n \in {Contact_Info, Work_Roles, Skills, Highlights,
               <<"H","o","b","b","i","e","s">>}}
    \cup {[name |-> StrCell(Work_Roles), inc |-> StrCell(<<"N","o">>)],
          [name |-> NoneCell, inc |-> StrCell(<<"Y","e","s">>)]}

ContactRow(f, v, i) == [field |-> StrCell(f), value |-> v, inc |-> i]

RoleRow(c, i) ==
    [company |-> c, title |-> StrCell(<<"D","e","v">>),
     start |-> DateCell(2023, 1), end |-> StrCell(Present),
     location |-> NoneCell, inc |-> i]

JordanLee == <<"J","o","r","d","a","n"," ","L","e","e">>

\* a workbook with every sheet of the template, an Order sheet that lists
\* Contact_Info and Work_Roles, the name Jordan Lee and one role at Acme
TemplateWorkbook ==
    [valid   |-> TRUE,
     sheets  |-> SheetNames,
     order   |-> <<[name |-> StrCell(Contact_Info), inc |-> StrCell(<<"Y","e","s">>)],
                   [name |-> StrCell(Work_Roles), inc |-> StrCell(<<"Y","e","s">>)]>>,
     contact |-> <<ContactRow(NameField, StrCell(JordanLee), StrCell(<<"Y","e","s">>))>>,
     roles   |-> <<RoleRow(StrCell(Acme), StrCell(<<"Y","e","s">>))>>,
     education |-> <<>>,
     skills  |-> <<>>,
     summary |-> [inc |-> NoneCell, text |-> NoneCell]]

\* the workbooks: at most MaxMissing sheets of the template are missing
WorkbookInputs ==
    {[TemplateWorkbook EXCEPT
        !.sheets = SheetNames \ gone,
        !.order  = IF OrderSheet \in gone THEN <<>> ELSE o] :
        gone \in {g \in SUBSET SheetNames : Cardinality(g) <= MaxMissing},
        o \in [1..MaxOrderRows -> OrderRowInputs]}

\* the conversion service answers every request well: 'finished' at the
\* second poll
FinishedEnv ==
    [api_key |-> TRUE, create |-> "201", upload |-> "ok", poll_at |-> 2,
     poll |-> "finished", download |-> "ok", save_ok |-> TRUE,
     remove_ok |-> TRUE]

GenInit ==
    /\ wb \in WorkbookInputs
    /\ gen = NoGen
    /\ env = FinishedEnv
    /\ preview = NoPreview /\ clock = 0 /\ reqs = <<>> /\ file_storage = <<>>
    /\ doc = NoDoc /\ usage = <<>> /\ ru = <<>> /\ day = 1
    /\ doc = NoDoc /\ usage = <<>> /\ ru = <<>> /\ day = 1
    /\ cell = NoneCell /\ res = NoRes
    /\ sheet = <<>> /\ company = <<>> /\ rd = NoRead
    /\ defws = <<>> /\ styles = NoStyles

CallCreateResumeFromFile ==
    /\ gen.fn = "none"
    /\ \E generate_pdf, generate_docx \in BOOLEAN :
           gen' = [fn |-> "create_resume_from_file",
                   generate_pdf |-> generate_pdf,
                   generate_docx |-> generate_docx,
                   result |-> create_resume_from_file(wb, generate_pdf,
                                                      generate_docx, env,
                                                      clock)]
    /\ UNCHANGED <<cell, res, sheet, company, rd, defws, styles, wb,
                   env, preview, clock, reqs, file_storage, doc, usage, ru, day>>

CallPreviewResumeContent ==
    /\ preview.fn = "none"
    /\ preview' = [fn |-> "preview_resume_content",
                   result |-> preview_resume_content(wb)]
    /\ UNCHANGED <<cell, res, sheet, company, rd, defws, styles, wb,
                   env, gen, clock, reqs, file_storage, doc, usage, ru, day>>

GenNext == CallCreateResumeFromFile

GenSpec == GenInit /\ [][GenNext]_vars

\* one generation and one preview of the same workbook, in either order
FileNext ==
    \/ CallCreateResumeFromFile
    \/ CallPreviewResumeContent

-----------------------------------------------------------------------------
(* The output files and the conversion: a workbook met by every behaviour  *)
(* of the conversion service and of the file system                        *)

Env(k, c, u, a, p, d, s, r) ==
    [api_key |-> k, create |-> c, upload |-> u, poll_at |-> a, poll |-> p,
     download |-> d, save_ok |-> s, remove_ok |-> r]

\* the credential is unset or the docx cannot be saved; the job is refused
\* or its request raises; the upload is refused or raises; the job's status
\* becomes terminal at any poll, or only after the last one, and the poll,
\* the download and the removal of the docx succeed or fail
EnvInputs ==
    {Env(FALSE, "201", "ok", 1, "finished", "ok", s, TRUE) : s \in BOOLEAN}
    \cup {Env(TRUE, c, "ok", 1, "finished", "ok", TRUE, TRUE) :
            c \in {"500", "raise"}}
    \cup {Env(TRUE, "201", u, 1, "finished", "ok", TRUE, TRUE) :
            u \in {"fail", "raise"}}
    \cup {Env(TRUE, "201", "ok", a, p, "ok", TRUE, TRUE) :
            a \in 1..(PollAttempts + 1), p \in {"error", "raise"}}
    \cup {Env(TRUE, "201", "ok", a, "finished", d, TRUE, TRUE) :
            a \in 1..(PollAttempts + 1), d \in {"raise", "404"}}
    \cup {Env(TRUE, "201", "ok", a, "finished", "ok", TRUE, r) :
            a \in 1..(PollAttempts + 1), r \in BOOLEAN}

\* the template's workbook, a file that is no workbook, and workbooks that
\* lack one sheet
ConvWorkbookInputs ==
    {TemplateWorkbook, [TemplateWorkbook EXCEPT !.valid = FALSE]}
    \cup {[TemplateWorkbook EXCEPT !.sheets = SheetNames \ {s}] :
            s \in {Contact_Info, Work_Roles, Work_Experience}}

ConvInit ==
    /\ wb \in ConvWorkbookInputs
    /\ env \in EnvInputs
    /\ gen = NoGen /\ preview = NoPreview
    /\ clock = 0 /\ reqs = <<>> /\ file_storage = <<>>
    /\ doc = NoDoc /\ usage = <<>> /\ ru = <<>> /\ day = 1
    /\ cell = NoneCell /\ res = NoRes
    /\ sheet = <<>> /\ company = <<>> /\ rd = NoRead
    /\ defws = <<>> /\ styles = NoStyles

ConvSpec == ConvInit /\ [][FileNext]_vars

-----------------------------------------------------------------------------
(* The contact's name and the file name *)

NameInputs ==
    {StrCell(JordanLee),
     StrCell(<<"J","o","r","d","a","n">>),
     StrCell(<<"A","n","n"," "," ","M"," ","L","e","e">>),
     StrCell(<<" ","J","o"," ">>),
     StrCell(<<" "," ">>),
     IntCell(7),
     NoneCell}

ContactRowInputs ==
    {ContactRow(NameField, v, i) :
        v \in NameInputs, i \in {StrCell(<<"Y","e","s">>), StrCell(<<"N","o">>)}}
    \cup {ContactRow(<<"E","m","a","i","l">>, StrCell(<<"j","@","x">>),
                     StrCell(<<"Y","e","s">>))}

NameInit ==
    /\ wb \in {[TemplateWorkbook EXCEPT !.contact = c] :
                 c \in [1..MaxContactRows -> ContactRowInputs]}
    /\ env = NoEnv
    /\ gen = NoGen /\ preview = NoPreview
    /\ clock = 0 /\ reqs = <<>> /\ file_storage = <<>>
    /\ doc = NoDoc /\ usage = <<>> /\ ru = <<>> /\ day = 1
    /\ cell = NoneCell /\ res = NoRes
    /\ sheet = <<>> /\ company = <<>> /\ rd = NoRead
    /\ defws = <<>> /\ styles = NoStyles

NameSpec == NameInit /\ [][FileNext]_vars

-----------------------------------------------------------------------------
(* The roles of the Work_Roles sheet *)

RoleRowInputs ==
    {RoleRow(StrCell(Acme), i) :
        i \in {StrCell(<<"Y","e","s">>), StrCell(<<"y">>), StrCell(<<"N","o">>),
               StrCell(<<"y","e","s"," ">>), NoneCell}}
    \cup {RoleRow(StrCell(Beta), StrCell(<<"Y","e","s">>)),
          RoleRow(StrCell(Beta), StrCell(<<"N","o">>)),
          RoleRow(NoneCell, StrCell(<<"Y","e","s">>))}

\* the Order sheet lists Work_Roles, or only Contact_Info
RolesInit ==
    /\ wb \in {[TemplateWorkbook EXCEPT !.roles = r, !.order = SubSeq(@, 1, n)] :
                 r \in [1..MaxRoleRows -> RoleRowInputs], n \in {1, 2}}
    /\ env = NoEnv
    /\ gen = NoGen /\ preview = NoPreview
    /\ clock = 0 /\ reqs = <<>> /\ file_storage = <<>>
    /\ doc = NoDoc /\ usage = <<>> /\ ru = <<>> /\ day = 1
    /\ cell = NoneCell /\ res = NoRes
    /\ sheet = <<>> /\ company = <<>> /\ rd = NoRead
    /\ defws = <<>> /\ styles = NoStyles

RolesSpec == RolesInit /\ [][FileNext]_vars

-----------------------------------------------------------------------------
(* The builders.  The document is the sequence of its paragraphs; a        *)
(* paragraph is its style and the texts of its runs.  Fonts, sizes,        *)
(* alignment and spacing are left out.                                     *)

Para(style, runs) == [style |-> style, runs |-> runs]

\* sep.join(parts)
RECURSIVE Join(_, _)
Join(sep, parts) ==
    IF parts = <<>> THEN <<>>
    ELSE IF Len(parts) = 1 THEN parts[1]
    ELSE parts[1] \o sep \o Join(sep, Tail(parts))

CredentialsField == <<"C","r","e","d","e","n","t","i","a","l","s">>
EmailField == <<"E","m","a","i","l">>
PhoneField == <<"P","h","o","n","e">>
LinkedInField == <<"L","i","n","k","e","d","I","n">>
WebsiteField == <<"W","e","b","s","i","t","e">>
CityField == <<"C","i","t","y">>
StateField == <<"S","t","a","t","e">>
CountryField == <<"C","o","u","n","t","r","y">>

\* [contact[f] for f in fields if f in contact]
ValuesOf(contact, fields) ==
    LET there == SelectSeq(fields, LAMBDA f : f \in DOMAIN contact)
    IN  [i \in 1..Len(there) |-> contact[there[i]]]

\* lines 261-317
build_contact_header(d, contact) ==
    LET name_line == Get(contact, NameField, <<>>)
                     \o (IF CredentialsField \in DOMAIN contact
                         THEN <<",", " ">> \o contact[CredentialsField]
                         ELSE <<>>)
        location_parts == ValuesOf(contact, <<CityField, StateField, CountryField>>)
        contact_parts ==
            ValuesOf(contact, <<EmailField, PhoneField, LinkedInField, WebsiteField>>)
            \o (IF location_parts # <<>>
                THEN <<Join(<<",", " ">>, location_parts)>> ELSE <<>>)
    IN  d \o <<Para("Normal", <<name_line>>)>>
          \o (IF Title \in DOMAIN contact
              THEN <<Para("Normal", <<contact[Title]>>)>> ELSE <<>>)
          \o (IF contact_parts # <<>>
              THEN <<Para("Normal", <<Join(<<" ", "|", " ">>, contact_parts)>>)>>
              ELSE <<>>)

\* the header paragraph of a section
SectionHeader(section_name) == Para("Normal", <<Upper(section_name)>>)

BulletParas(texts) == [i \in 1..Len(texts) |-> Para("List Bullet", <<texts[i]>>)]

\* lines 319-347; summary_text is <<>> for None
build_summary(d, summary_text, section_name) ==
    IF summary_text = <<>> THEN d
    ELSE d \o <<SectionHeader(section_name), Para("Normal", <<summary_text>>)>>

\* lines 349-378
build_bullet_section(d, title, texts) ==
    IF texts = <<>> THEN d
    ELSE d \o <<SectionHeader(title)>> \o BulletParas(texts)

\* the paragraphs of one role (lines 402-472): company and dates, title and
\* location, the bullets of the role's company, and the spacer
RoleParas(roles, k, work_exp_ws) ==
    LET role == roles[k]
    IN  <<Para("Normal", <<role.company,
                           <<"\t">> \o role.start_date \o <<" ", "-", " ">>
                               \o role.end_date>>),
          Para("Normal", <<role.title>>
                         \o (IF role.location # <<>>
                             THEN <<<<"\t">> \o role.location>> ELSE <<>>))>>
        \o BulletParas(read_work_experience(work_exp_ws, role.company))
        \o (IF role # roles[Len(roles)] THEN <<Para("Normal", <<>>)>> ELSE <<>>)

RECURSIVE RolesParas(_, _, _)
RolesParas(roles, k, work_exp_ws) ==
    IF k > Len(roles) THEN <<>>
    ELSE RoleParas(roles, k, work_exp_ws) \o RolesParas(roles, k + 1, work_exp_ws)

\* lines 380-476
build_work_experience(d, roles, work_exp_ws, section_name) ==
    IF roles = <<>> THEN d
    ELSE d \o <<SectionHeader(section_name)>> \o RolesParas(roles, 1, work_exp_ws)

RECURSIVE ScanEducation_past_blank(_, _)
ScanEducation_past_blank(rows, i) ==
    IF i > Len(rows) THEN <<>>
    ELSE LET school == safe_str(rows[i].school)
         IN  IF school = <<>> THEN ScanEducation_past_blank(rows, i + 1)
             ELSE <<[school    |-> school,
                     degree    |-> safe_str(rows[i].degree),
                     major     |-> safe_str(rows[i].major),
                     end_date  |-> format_date(rows[i].end),
                     location  |-> safe_str(rows[i].location),
                     graduated |-> safe_str(rows[i].graduated)]>>
                  \o ScanEducation_past_blank(rows, i + 1)

\* rows 4..50 of the Education sheet, up to the first blank school
RECURSIVE ScanEducation(_, _)
ScanEducation(rows, i) ==
    IF i > Len(rows) THEN <<>>
    ELSE LET school == safe_str(rows[i].school)
         IN  IF school = <<>> THEN <<>>
             ELSE <<[school    |-> school,
                     degree    |-> safe_str(rows[i].degree),
                     major     |-> safe_str(rows[i].major),
                     end_date  |-> format_date(rows[i].end),
                     location  |-> safe_str(rows[i].location),
                     graduated |-> safe_str(rows[i].graduated)]>>
                  \o ScanEducation(rows, i + 1)

read_education(ws) == ScanEducation(ws, 1)

date_text_never_in_progress(edu) ==
    IF Upper(edu.graduated) = <<"Y","E","S">>
    THEN <<"G","r","a","d","u","a","t","e","d"," ">> \o edu.end_date
    ELSE IF Upper(edu.graduated) = <<"N","O">>
    THEN <<"A","n","t","i","c","i","p","a","t","e","d"," ">> \o edu.end_date
    ELSE edu.end_date

\* the date text of the school row (lines 515-524)
date_text(edu) ==
    IF Upper(edu.graduated) = <<"Y","E","S">>
    THEN <<"G","r","a","d","u","a","t","e","d"," ">> \o edu.end_date
    ELSE IF Upper(edu.graduated) = <<"N","O">>
    THEN IF edu.end_date # <<>>
         THEN <<"A","n","t","i","c","i","p","a","t","e","d"," ">> \o edu.end_date
         ELSE <<"I","n"," ","P","r","o","g","r","e","s","s">>
    ELSE edu.end_date

\* the two paragraphs of one degree (lines 498-559)
EduParas(edu) ==
    <<Para("Normal", <<edu.school>>
                     \o (IF date_text(edu) # <<>>
                         THEN <<<<"\t">> \o date_text(edu)>> ELSE <<>>)),
      Para("Normal", <<edu.degree \o (IF edu.major # <<>>
                                      THEN <<",", " ">> \o edu.major
                                      ELSE <<>>)>>
                     \o (IF edu.location # <<>>
                         THEN <<<<"\t">> \o edu.location>> ELSE <<>>))>>

RECURSIVE EducationParas(_)
EducationParas(education) ==
    IF education = <<>> THEN <<>>
    ELSE EduParas(Head(education)) \o EducationParas(Tail(education))

\* lines 478-562
build_education(d, education, section_name) ==
    IF education = <<>> THEN d
    ELSE d \o <<SectionHeader(section_name)>> \o EducationParas(education)

\* the categories of the Skills sheet (lines 571-583): skills_ws holds, for
\* each of the columns B, F, J and N, the name cell of row 3 and the rows
\* 4..50 of the category's three columns
RECURSIVE Categories(_)
Categories(skills_ws) ==
    IF skills_ws = <<>> THEN <<>>
    ELSE LET category_name == safe_str(Head(skills_ws).name)
             skills == read_skills(Head(skills_ws).rows)
         IN  (IF category_name # <<>> /\ skills # <<>>
              THEN <<[name |-> category_name, skills |-> skills]>>
              ELSE <<>>) \o Categories(Tail(skills_ws))

\* lines 564-617
build_skills(d, skills_ws, section_name) ==
    LET categories == Categories(skills_ws)
    IN  IF categories = <<>> THEN d
        ELSE d \o <<SectionHeader(section_name)>>
               \o [i \in 1..Len(categories) |->
                     Para("Normal", <<categories[i].name \o <<":", " ">>,
                                      Join(<<",", " ">>, categories[i].skills)>>)]

\* the summary of the Summary sheet (lines 148-155); <<>> for None
read_summary(ws) ==
    LET include      == default_include(ws.inc)
        summary_text == safe_str(ws.text)
    IN  IF include = "Yes" /\ summary_text # <<>> THEN summary_text ELSE <<>>

Yes == StrCell(<<"Y","e","s">>)
No == StrCell(<<"N","o">>)

\* the fields of the contact header, each with the value the sheets below
\* give it
HeaderFields ==
    <<NameField, CredentialsField, Title, EmailField, PhoneField,
      LinkedInField, WebsiteField, CityField, StateField, CountryField>>

\* a Contact_Info sheet with one row for each field of the header, each
\* included or not
ContactSheetInputs ==
    {[i \in 1..Len(HeaderFields) |->
        ContactRow(HeaderFields[i], StrCell(<<HeaderFields[i][1], "1">>),
                   IF HeaderFields[i] \in inc THEN Yes ELSE No)] :
        inc \in SUBSET {HeaderFields[i] : i \in 1..Len(HeaderFields)}}

\* roles at Acme and Beta; two rows of Acme differ in nothing, one in its
\* title, one is excluded
BuildRoleInputs ==
    {RoleRow(StrCell(Acme), Yes),
     [RoleRow(StrCell(Acme), Yes) EXCEPT !.title = StrCell(<<"Q","A">>)],
     RoleRow(StrCell(Beta), Yes),
     RoleRow(StrCell(Acme), No)}

\* Work_Experience sheets: bullets of Acme out of order around one of Beta;
\* bullets whose company cell is Acme with a space behind it, acme, and Acme
\* on an excluded and on a blank bullet; an empty sheet
ExperienceInputs ==
    {<<Row(Acme, StrCell(<<"b">>), Yes, IntCell(2)),
       Row(Beta, StrCell(<<"c">>), Yes, IntCell(1)),
       Row(Acme, StrCell(<<"a">>), Yes, IntCell(1))>>,
     <<Row(<<"A","c","m","e"," ">>, StrCell(<<"p">>), Yes, IntCell(1)),
       Row(<<"a","c","m","e">>, StrCell(<<"l">>), Yes, IntCell(1)),
       Row(Acme, StrCell(<<"x">>), No, IntCell(1)),
       Row(Acme, NoneCell, Yes, IntCell(1))>>,
     <<>>}

EduRow(s, e, g) ==
    [school |-> s, degree |-> StrCell(<<"B","S">>), major |-> NoneCell,
     end |-> e, location |-> NoneCell, graduated |-> g]

School == <<"M","I","T">>

EduRowInputs ==
    {EduRow(StrCell(School), e, g) :
        e \in {NoneCell, DateCell(2023, 5)},
        g \in {Yes, StrCell(<<"y","e","s">>), No, StrCell(<<"n","o">>),
               StrCell(<<"Y">>), NoneCell}}
    \cup {EduRow(NoneCell, DateCell(2023, 5), Yes),
          [EduRow(StrCell(School), DateCell(2023, 5), Yes) EXCEPT
              !.major = StrCell(<<"C","S">>), !.location = StrCell(<<"M","A">>)]}

\* the columns of one category of the Skills sheet: without a name, without
\* a skill that qualifies, and with two skills
CategoryInputs ==
    {[name |-> NoneCell,
      rows |-> <<[text |-> StrCell(<<"g","o">>), inc |-> Yes, ord |-> IntCell(1)]>>],
     [name |-> StrCell(<<"L","a","n","g">>),
      rows |-> <<[text |-> StrCell(<<"g","o">>), inc |-> No, ord |-> IntCell(1)],
                 [text |-> NoneCell, inc |-> Yes, ord |-> IntCell(2)]>>],
     [name |-> StrCell(<<"L","a","n","g">>),
      rows |-> <<[text |-> StrCell(<<"g","o">>), inc |-> Yes, ord |-> IntCell(2)],
                 [text |-> NoneCell, inc |-> Yes, ord |-> NoneCell],
                 [text |-> StrCell(<<"c">>), inc |-> Yes, ord |-> IntCell(1)]>>]}

SummaryInputs ==
    {[inc |-> i, text |-> t] :
        i \in {Yes, No}, t \in {NoneCell, StrCell(<<"S","u","m">>)}}

\* the workbooks the builders are run for: one sheet of the template's
\* workbook is filled in every way, the others are left as they are
BuildWorkbookInputs ==
    {[TemplateWorkbook EXCEPT !.contact = c] : c \in ContactSheetInputs}
    \cup {[TemplateWorkbook EXCEPT !.education = e] :
            e \in [1..MaxEduRows -> EduRowInputs]}
    \cup {[TemplateWorkbook EXCEPT !.skills = k, !.summary = u] :
            k \in [1..4 -> CategoryInputs], u \in SummaryInputs}

\* the document is empty or holds a paragraph already
DocInputs == {<<>>, <<Para("Normal", <<<<"x">>>>)>>}

BuildInit ==
    /\ \/ /\ wb \in {[TemplateWorkbook EXCEPT !.roles = r] :
                       r \in [1..MaxRoleRows -> BuildRoleInputs]}
          /\ sheet \in ExperienceInputs
       \/ /\ wb \in BuildWorkbookInputs
          /\ sheet \in {<<>>, <<Row(Acme, StrCell(<<"a">>), Yes, IntCell(1))>>}
    /\ \E d \in DocInputs : doc = [fn |-> "none", before |-> d, paragraphs |-> d]
    /\ usage = <<>> /\ ru = <<>> /\ day = 1
    /\ env = NoEnv /\ gen = NoGen /\ preview = NoPreview
    /\ clock = 0 /\ reqs = <<>> /\ file_storage = <<>>
    /\ cell = NoneCell /\ res = NoRes
    /\ company = <<>> /\ rd = NoRead
    /\ defws = <<>> /\ styles = NoStyles

BuildFrame ==
    UNCHANGED <<cell, res, sheet, company, rd, defws, styles, wb, gen,
                env, preview, clock, reqs, file_storage, usage, ru, day>>

CallBuildContactHeader ==
    /\ doc.fn = "none"
    /\ doc' = [fn |-> "build_contact_header",
               before |-> doc.paragraphs,
               paragraphs |-> build_contact_header(doc.paragraphs,
                                  read_contact_info(wb.contact))]
    /\ BuildFrame

CallBuildSummary ==
    /\ doc.fn = "none"
    /\ doc' = [fn |-> "build_summary",
               before |-> doc.paragraphs,
               paragraphs |-> build_summary(doc.paragraphs,
                                  read_summary(wb.summary),
                                  <<"P","r","o","f","i","l","e">>)]
    /\ BuildFrame

CallBuildBulletSection ==
    /\ doc.fn = "none"
    /\ doc' = [fn |-> "build_bullet_section",
               before |-> doc.paragraphs,
               paragraphs |-> build_bullet_section(doc.paragraphs, Highlights,
                                  read_bullet_section(sheet))]
    /\ BuildFrame

CallBuildWorkExperience ==
    /\ doc.fn = "none"
    /\ doc' = [fn |-> "build_work_experience",
               before |-> doc.paragraphs,
               paragraphs |-> build_work_experience(doc.paragraphs,
                                  read_work_roles(wb.roles), sheet,
                                  <<"J","o","b","s">>)]
    /\ BuildFrame

CallBuildEducation ==
    /\ doc.fn = "none"
    /\ doc' = [fn |-> "build_education",
               before |-> doc.paragraphs,
               paragraphs |-> build_education(doc.paragraphs,
                                  read_education(wb.education), Education)]
    /\ BuildFrame

CallBuildSkills ==
    /\ doc.fn = "none"
    /\ doc' = [fn |-> "build_skills",
               before |-> doc.paragraphs,
               paragraphs |-> build_skills(doc.paragraphs, wb.skills, Skills)]
    /\ BuildFrame

BuildNext ==
    \/ CallBuildContactHeader
    \/ CallBuildSummary
    \/ CallBuildBulletSection
    \/ CallBuildWorkExperience
    \/ CallBuildEducation
    \/ CallBuildSkills

BuildSpec == BuildInit /\ [][BuildNext]_vars

-----------------------------------------------------------------------------
(* The readers of the sheets, run on sheets with blank rows *)

\* the rows of a bullet sheet: a blank row, an included and an excluded row
\* of Acme and an included row of Beta
ScanRowInputs ==
    {Row(Acme, NoneCell, Yes, IntCell(1)),
     Row(Acme, StrCell(<<"a">>), Yes, IntCell(2)),
     Row(Acme, StrCell(<<"b">>), No, IntCell(1)),
     Row(Beta, StrCell(<<"c">>), Yes, IntCell(1))}

\* one sheet is filled in every way, the others are as in the template
ScanInit ==
    /\ \/ /\ sheet \in [1..MaxRows -> ScanRowInputs]
          /\ wb = TemplateWorkbook
       \/ /\ sheet = <<>>
          /\ wb \in {[TemplateWorkbook EXCEPT !.roles = r] :
                        r \in [1..MaxRoleRows -> RoleRowInputs]}
                    \cup {[TemplateWorkbook EXCEPT !.education = e] :
                            e \in [1..MaxEduRows -> EduRowInputs]}
                    \cup {[TemplateWorkbook EXCEPT !.order = o] :
                            o \in [1..MaxOrderRows -> OrderRowInputs]}
    /\ company = <<>> /\ rd = NoRead
    /\ cell = NoneCell /\ res = NoRes
    /\ defws = <<>> /\ styles = NoStyles
    /\ gen = NoGen
    /\ ApiIdle

CallReadWorkRoles ==
    /\ rd' = [fn |-> "read_work_roles", rows |-> read_work_roles(wb.roles)]
    /\ company' = <<>>
    /\ ReadFrame

CallReadEducation ==
    /\ rd' = [fn |-> "read_education", rows |-> read_education(wb.education)]
    /\ company' = <<>>
    /\ ReadFrame

CallReadSectionOrder ==
    /\ rd' = [fn |-> "read_section_order", rows |-> read_section_order(wb)]
    /\ company' = <<>>
    /\ ReadFrame

ScanNext ==
    \/ CallReadWorkRoles
    \/ CallReadEducation
    \/ CallReadBulletSection
    \/ CallReadSectionOrder
    \/ CallReadWorkExperience
    \/ CallReadSkills

ScanSpec == ScanInit /\ [][ScanNext]_vars

-----------------------------------------------------------------------------
(* The /generate and /generate-preview requests of the API (src/main.py) *)

Path(dir, file) == [dir |-> dir, file |-> file]
NoPath == Path(0, <<>>)

NoResult == Failed(NoError, <<>>, <<>>)
NoResponse == [status |-> 0, name |-> <<>>, file_id |-> <<>>, files |-> {}]

\* an upload to /generate: excel tells whether the file's name ends in .xlsx
\* or .xlsm, input whether input.xlsx is in the request's temporary directory
Upload(x, w, f) ==
    [endpoint |-> "/generate", excel |-> x, wb |-> w, format |-> f,
     state |-> "received", input |-> FALSE,
     result |-> NoResult, data |-> NoResult, response |-> NoResponse]

\* an upload to /generate-preview
PreviewUpload(x, w) == [Upload(x, w, "none") EXCEPT !.endpoint = "/generate-preview"]

\* two uploads of Jordan Lee's workbook, one of Jordan's, a file that is no
\* workbook and a file that is not named as an Excel file
UploadInputs ==
    {Upload(TRUE, TemplateWorkbook, "docx"),
     Upload(TRUE, TemplateWorkbook, "pdf"),
     Upload(TRUE, [TemplateWorkbook EXCEPT !.contact =
                      <<ContactRow(NameField, StrCell(<<"J","o","r","d","a","n">>),
                                   StrCell(<<"Y","e","s">>))>>], "both"),
     Upload(TRUE, [TemplateWorkbook EXCEPT !.valid = FALSE], "docx"),
     Upload(FALSE, TemplateWorkbook, "both"),
     PreviewUpload(TRUE, TemplateWorkbook)}

ApiInit ==
    /\ reqs \in [1..MaxRequests -> UploadInputs]
    /\ file_storage = <<>>
    /\ doc = NoDoc /\ usage = <<>> /\ ru = <<>> /\ day = 1
    /\ clock = 0
    /\ env = FinishedEnv
    /\ wb = NoWorkbook /\ gen = NoGen /\ preview = NoPreview
    /\ cell = NoneCell /\ res = NoRes
    /\ sheet = <<>> /\ company = <<>> /\ rd = NoRead
    /\ defws = <<>> /\ styles = NoStyles

\* what the handler of POST /generate does with the result of the generation
\* for request r, whose temporary directory, made by mkdtemp, is named r
Answer(r, result) ==
    LET file_id  == FileId(clock)
        pdf      == IF result.pdf_path
                    THEN Path(r, result.filename \o <<".","p","d","f">>)
                    ELSE NoPath
        docx     == IF result.docx_path
                    THEN Path(r, result.filename \o <<".","d","o","c","x">>)
                    ELSE NoPath
        files    == {t \in {"pdf"} : result.pdf_path /\ result.pdf_file}
                    \cup {t \in {"docx"} : result.docx_path /\ result.docx_file}
    IN  IF ~result.success
        THEN /\ reqs' = [reqs EXCEPT ![r].state = "answered",
                                     ![r].input = TRUE,
                                     ![r].result = result,
                                     ![r].response.status = 500]
             /\ UNCHANGED file_storage
        ELSE /\ file_storage' =
                    (file_id :> [pdf |-> pdf, docx |-> docx,
                                 name |-> result.name]) @@ file_storage
             /\ reqs' = [reqs EXCEPT ![r].state = "answered",
                                     ![r].input = TRUE,
                                     ![r].result = result,
                                     ![r].response =
                                         [status |-> 200, name |-> result.name,
                                          file_id |-> file_id, files |-> files]]

\* the handler of POST /generate for request r: input.xlsx is written and
\* stays where it is
generate_resume(r) ==
    /\ reqs[r].endpoint = "/generate"
    /\ reqs[r].state = "received"
    /\ IF ~reqs[r].excel
       THEN /\ reqs' = [reqs EXCEPT ![r].state = "answered",
                                    ![r].response.status = 400]
            /\ UNCHANGED file_storage
       ELSE \E result \in {create_resume_from_file(
                               reqs[r].wb,
                               reqs[r].format \in {"pdf", "both"},
                               reqs[r].format \in {"docx", "both"},
                               env, clock)} :
                Answer(r, result)
    /\ UNCHANGED <<cell, res, sheet, company, rd, defws, styles, wb, gen,
                   env, preview, clock, doc, usage, ru, day>>

\* the handler of POST /generate-preview for request r: input.xlsx is written,
\* the preview made, and the finally clause removes input.xlsx; an os.remove
\* that fails raises out of the finally clause
generate_preview(r) ==
    /\ reqs[r].endpoint = "/generate-preview"
    /\ reqs[r].state = "received"
    /\ IF ~reqs[r].excel
       THEN reqs' = [reqs EXCEPT ![r].state = "answered",
                                 ![r].response.status = 400]
       ELSE \E preview_data \in {preview_resume_content(reqs[r].wb)} :
               reqs' = [reqs EXCEPT ![r].state = "answered",
                                    ![r].input = ~env.remove_ok,
                                    ![r].data = preview_data,
                                    ![r].response.status =
                                        IF env.remove_ok THEN 200 ELSE 500]
    /\ UNCHANGED <<cell, res, sheet, company, rd, defws, styles, wb, gen,
                   env, preview, clock, file_storage, doc, usage, ru, day>>

\* time passes: to the next microsecond of a second that has just begun, or
\* to the beginning of the next second
Tick ==
    /\ \/ clock % 1000000 = 0 /\ clock' = clock + 1
       \/ /\ clock \div 1000000 < MaxSeconds
          /\ clock' = ((clock \div 1000000) + 1) * 1000000
    /\ UNCHANGED <<cell, res, sheet, company, rd, defws, styles, wb, gen,
                   env, preview, reqs, file_storage, doc, usage, ru, day>>

ApiNext ==
    \/ \E r \in 1..MaxRequests : generate_resume(r)
    \/ \E r \in 1..MaxRequests : generate_preview(r)
    \/ Tick

ApiSpec == ApiInit /\ [][ApiNext]_vars


-----------------------------------------------------------------------------
(* The usage endpoints of the API (src/main.py, the same code as          *)
(* src/backend_usage_endpoints.py)                                         *)

\* date.today().isoformat(), on day d of January 2026
IsoDate(d) == <<"2","0","2","6","-","0","1","-">> \o ZeroPad(StrNat(d), 2)

User1 == <<"u","1">>
User2 == <<"u","2">>

NoAnswer == [success |-> FALSE, can_generate |-> FALSE, reason |-> "none"]

\* a call of an endpoint: pc is where its handler is, today and data are the
\* handler's variables (data the rows its select returned), at is the day
\* on which the rows were selected
Call(op, u) ==
    [op |-> op, user_id |-> u, pc |-> "start", today |-> <<>>, data |-> <<>>,
     at |-> 0, answer |-> NoAnswer]

CallInputs ==
    {Call("record_usage", User1), Call("check_usage", User1),
     Call("record_usage", User2)}

\* the deployments: with or without the Supabase client, and with a
\* user_usage table that does or does not refuse a second row of a user
Deployments ==
    {[supabase |-> TRUE, unique_user_id |-> TRUE],
     [supabase |-> TRUE, unique_user_id |-> FALSE],
     [supabase |-> FALSE, unique_user_id |-> FALSE]}

\* the days of January 2026 the calls are made on
Days == {1, 2}

UsageInit ==
    /\ ru \in [1..MaxCalls -> CallInputs]
    /\ usage = <<>>
    /\ env \in Deployments
    /\ clock = 0 /\ day = 1
    /\ doc = NoDoc /\ preview = NoPreview
    /\ reqs = <<>> /\ file_storage = <<>>
    /\ wb = NoWorkbook /\ gen = NoGen
    /\ cell = NoneCell /\ res = NoRes
    /\ sheet = <<>> /\ company = <<>> /\ rd = NoRead
    /\ defws = <<>> /\ styles = NoStyles

UsageFrame ==
    UNCHANGED <<cell, res, sheet, company, rd, defws, styles, wb, gen,
                env, preview, clock, reqs, file_storage, doc>>

\* supabase.table('user_usage').select('*').eq('user_id', u).execute()
Select(u) == SelectSeq(usage, LAMBDA row : row.user_id = u)

\* the except clause: the call is answered without success
Raise(c) ==
    ru' = [ru EXCEPT ![c].pc = "done", ![c].answer.success = FALSE,
                     ![c].answer.reason = "error"]

\* check_usage: the answer to the rows selected
Decide(data) ==
    IF data = <<>> THEN [can_generate |-> TRUE, reason |-> "new_user"]
    ELSE IF data[1].subscription_status = "pro"
    THEN [can_generate |-> TRUE, reason |-> "pro"]
    ELSE IF data[1].generations_today >= 1
    THEN [can_generate |-> FALSE, reason |-> "daily_limit"]
    ELSE IF data[1].generations_month >= 5
    THEN [can_generate |-> FALSE, reason |-> "monthly_limit"]
    ELSE [can_generate |-> TRUE, reason |-> "within_limits"]

\* the handler of POST /check-usage; its one request to the table succeeds
\* or raises
check_usage(c) ==
    /\ ru[c].op = "check_usage" /\ ru[c].pc = "start"
    /\ IF ~env.supabase
       THEN ru' = [ru EXCEPT ![c].pc = "done",
                             ![c].answer = [success |-> TRUE, can_generate |-> TRUE,
                                            reason |-> "unlimited"]]
       ELSE \/ LET data == Select(ru[c].user_id)
               IN  ru' = [ru EXCEPT ![c].pc = "done", ![c].data = data,
                                    ![c].at = day,
                                    ![c].answer =
                                        [success |-> TRUE,
                                         can_generate |-> Decide(data).can_generate,
                                         reason |-> Decide(data).reason]]
            \/ ru' = [ru EXCEPT ![c].pc = "done",
                                ![c].answer = [success |-> FALSE, can_generate |-> TRUE,
                                               reason |-> "error_fallback"]]
    /\ UNCHANGED <<usage, day>>
    /\ UsageFrame

\* record_usage up to its select: today is read and the user's rows are
\* selected, or the request raises
record_usage_select(c) ==
    /\ ru[c].op = "record_usage" /\ ru[c].pc = "start"
    /\ IF ~env.supabase
       THEN ru' = [ru EXCEPT ![c].pc = "done", ![c].answer.success = TRUE,
                             ![c].answer.reason = "Supabase not configured"]
       ELSE \/ ru' = [ru EXCEPT ![c].pc = "selected",
                                ![c].today = IsoDate(day),
                                ![c].at = day,
                                ![c].data = Select(ru[c].user_id)]
            \/ Raise(c)
    /\ UNCHANGED <<usage, day>>
    /\ UsageFrame

\* .update({...}).eq('user_id', u).execute(): every row of the user is set
UpdateRows(u, today, user_data) ==
    [k \in DOMAIN usage |->
        IF usage[k].user_id # u THEN usage[k]
        ELSE [usage[k] EXCEPT
                !.generations_today =
                    IF user_data.last_generation_date # today THEN 1
                    ELSE user_data.generations_today + 1,
                !.generations_month = user_data.generations_month + 1,
                !.last_generation_date = today]]

\* record_usage from its select on: the row selected is updated or, if none
\* was, a row is inserted; a table with unique user_id refuses a second row
record_usage_write(c) ==
    /\ ru[c].op = "record_usage" /\ ru[c].pc = "selected"
    /\ \/ /\ ru[c].data # <<>>
          /\ usage' = UpdateRows(ru[c].user_id, ru[c].today, ru[c].data[1])
          /\ ru' = [ru EXCEPT ![c].pc = "done", ![c].answer.success = TRUE,
                              ![c].answer.reason = "recorded"]
       \/ /\ ru[c].data = <<>>
          /\ ~(env.unique_user_id /\ Select(ru[c].user_id) # <<>>)
          /\ usage' = Append(usage, [user_id |-> ru[c].user_id,
                                     generations_today |-> 1,
                                     generations_month |-> 1,
                                     last_generation_date |-> ru[c].today,
                                     subscription_status |-> "free"])
          /\ ru' = [ru EXCEPT ![c].pc = "done", ![c].answer.success = TRUE,
                              ![c].answer.reason = "recorded"]
       \/ Raise(c) /\ UNCHANGED usage
    /\ UNCHANGED day
    /\ UsageFrame

\* the handler of POST /webhook/stripe for an event about the subscription
\* of user u: checkout.session.completed makes the user's rows pro,
\* customer.subscription.deleted makes them free
stripe_webhook(u, type) ==
    /\ env.supabase
    /\ usage' = [k \in DOMAIN usage |->
                    IF usage[k].user_id # u THEN usage[k]
                    ELSE [usage[k] EXCEPT !.subscription_status =
                            IF type = "checkout.session.completed"
                            THEN "pro" ELSE "free"]]
    /\ usage' # usage
    /\ UNCHANGED <<ru, day>>
    /\ UsageFrame

\* the day ends
Midnight ==
    /\ day + 1 \in Days
    /\ day' = day + 1
    /\ UNCHANGED <<usage, ru>>
    /\ UsageFrame

UsageNext ==
    \/ \E c \in 1..MaxCalls : check_usage(c)
    \/ \E c \in 1..MaxCalls : record_usage_select(c)
    \/ \E c \in 1..MaxCalls : record_usage_write(c)
    \/ \E type \in {"checkout.session.completed", "customer.subscription.deleted"} :
            stripe_webhook(User1, type)
    \/ Midnight

UsageSpec == UsageInit /\ [][UsageNext]_vars

-----------------------------------------------------------------------------
(* Claims about the cell parsers, checked under CellSpec *)

\* the texts that are "yes" or "y" up to the case of their letters
YesTexts == CaseVariants(<<"y","e","s">>) \cup CaseVariants(<<"y">>)

\* C1, as stated: default_include yields "Yes" only when the cell value is
\* "yes" or "y" up to case; every other value, blank and None included,
\* yields "No".
C1_YesOnlyForYesOrY ==
    res.fn = "default_include" =>
        (res.inc = "Yes" <=> (cell.kind = "str" /\ cell.s \in YesTexts))

\* C1, amended: default_include yields "Yes" exactly when the cell holds text
\* that, with the whitespace around it removed, is "yes" or "y" up to case;
\* every other value, blank and None included, yields "No".
C1_YesOnlyForTrimmedYesOrY ==
    res.fn = "default_include" =>
        /\ res.inc \in {"Yes", "No"}
        /\ res.inc = "Yes" <=> (cell.kind = "str" /\ Strip(cell.s) \in YesTexts)

\* default_include said "Yes" to a padded, mixed-case "yes"
C1_Witness ==
    /\ res.fn = "default_include"
    /\ res.inc = "Yes"
    /\ cell.kind = "str"
    /\ cell.s # Strip(cell.s)
    /\ Strip(cell.s) \notin {<<"y","e","s">>, <<"Y","E","S">>, <<"y">>, <<"Y">>}

\* the text of an integer literal: an optional sign, then digits only
IsIntLiteral(t) ==
    LET ds == IF t # <<>> /\ Head(t) \in {"+", "-"} THEN Tail(t) ELSE t
    IN  ds # <<>> /\ \A i \in 1..Len(ds) : IsDigit(ds[i])

\* an integer literal without its "+" sign and leading zeros
RECURSIVE DropZeros(_)
DropZeros(ds) ==
    IF Len(ds) > 1 /\ Head(ds) = "0" THEN DropZeros(Tail(ds)) ELSE ds

Canonical(t) ==
    LET neg == Head(t) = "-"
        ds  == DropZeros(IF Head(t) \in {"+", "-"} THEN Tail(t) ELSE t)
    IN  IF neg /\ ds # <<"0">> THEN <<"-">> \o ds ELSE ds

\* C2: default_order returns the integer the cell value parses to (written
\* back as text it is the cell's literal), returns 9999 for a blank cell, for
\* None and for a value that does not parse as an integer, and never raises.
C2_OrderParsesOrIsLast ==
    res.fn = "default_order" =>
        /\ ~res.raised
        /\ CASE cell.kind = "none"  -> res.n = 9999
             [] cell.kind = "int"   -> res.n = cell.n
             [] cell.kind = "float" -> res.n = cell.n
             [] cell.kind = "str"   ->
                    IF IsIntLiteral(Strip(cell.s))
                    THEN StrInt(res.n) = Canonical(Strip(cell.s))
                    ELSE res.n = 9999
             [] OTHER               -> res.n = 9999

\* default_order gave the sentinel 9999 for text that is not blank and is no
\* integer literal
C2_Witness ==
    /\ res.fn = "default_order"
    /\ cell.kind = "str"
    /\ Strip(cell.s) # <<>>
    /\ ~IsIntLiteral(Strip(cell.s))
    /\ res.n = 9999

\* C4, as stated: format_date returns "Present" when the cell text equals
\* "PRESENT" up to case, "Mon YYYY" for a date, and otherwise the cell value
\* as trimmed text.
C4_FormatDateAsStated ==
    res.fn = "format_date" =>
        CASE cell.kind = "str" ->
                 IF cell.s \in CaseVariants(<<"p","r","e","s","e","n","t">>)
                 THEN res.txt = <<"P","r","e","s","e","n","t">>
                 ELSE res.txt = Strip(cell.s)
          [] OTHER -> TRUE

\* C4, amended: format_date returns "Present" when the cell text, with the
\* whitespace around it removed, equals "PRESENT" up to case; returns the
\* abbreviated month, a space and the 4-digit year for a date; and otherwise
\* returns the cell value as trimmed text.
C4_FormatDateTrimmed ==
    res.fn = "format_date" =>
        CASE cell.kind = "str" ->
                 IF Strip(cell.s) \in CaseVariants(<<"p","r","e","s","e","n","t">>)
                 THEN res.txt = <<"P","r","e","s","e","n","t">>
                 ELSE res.txt = Strip(cell.s)
          [] cell.kind = "date" ->
                 /\ Len(res.txt) = 8
                 /\ SubSeq(res.txt, 1, 3) = MonthAbbr[cell.m]
                 /\ res.txt[4] = " "
                 /\ IntOfText(SubSeq(res.txt, 5, 8)) = [ok |-> TRUE, n |-> cell.n]
          [] cell.kind = "int" -> res.txt = StrInt(cell.n)
          [] cell.kind = "none" -> res.txt = <<>>
          [] OTHER -> IntOfText(SubSeq(res.txt, 1, Len(res.txt) - 2)).n = cell.n

\* format_date formatted a date cell of January 2023 as "Jan 2023"
C4_Witness ==
    /\ res.fn = "format_date"
    /\ cell = DateCell(2023, 1)
    /\ res.txt = <<"J","a","n"," ","2","0","2","3">>

\* the bullet glyphs the list of strip_bullet_prefix spells out
Glyphs ==
    {"u2022", "u25CF", "u25CB", "u25E6", "u25AA", "u25AB", "u25A0", "u25A1",
     "-", "*", "u2192", "u21D2", "u25BA", "u25B8"}

\* the text with one leading glyph and the whitespace around it removed
WithoutLeadingGlyph(text) ==
    LET t == Strip(text)
    IN  IF t # <<>> /\ Head(t) \in Glyphs THEN Strip(Tail(t)) ELSE t

\* C6: strip_bullet_prefix, given text whose first non-whitespace character
\* is a bullet glyph, returns the text without that one character and the
\* whitespace around it (a second glyph is kept); other text is returned
\* trimmed and otherwise unchanged.
C6_StripsOneLeadingGlyph ==
    (res.fn = "strip_bullet_prefix" /\ cell.s # <<>>) =>
        res.txt = WithoutLeadingGlyph(cell.s)

-----------------------------------------------------------------------------
(* Claims about the row readers, checked under ReadSpec *)

\* the inclusion flag of row i is true
Included(i) ==
    sheet[i].inc.kind = "str" /\ Strip(sheet[i].inc.s) \in YesTexts

\* row i has text
NonEmpty(i) == safe_str(sheet[i].text) # <<>>

\* the rows the reader that ran looks at: read_bullet_section the rows above
\* the first blank one, read_work_experience the rows of its company,
\* read_skills every row
Scanned(i) ==
    CASE rd.fn = "read_bullet_section" -> \A j \in 1..i : NonEmpty(j)
      [] rd.fn = "read_work_experience" -> safe_str(sheet[i].comp) = company
      [] OTHER -> TRUE

Qualifying == {i \in 1..Len(sheet) : Scanned(i) /\ Included(i) /\ NonEmpty(i)}

OrderValue(i) == default_order(sheet[i].ord).n

\* the qualifying rows, each once, ascending by order value and, among rows
\* of one order value, in sheet row order
InClaimedOrder(idx) ==
    /\ \A i \in Qualifying : \E k \in 1..Len(idx) : idx[k] = i
    /\ \A k, l \in 1..Len(idx) :
          k < l => \/ OrderValue(idx[k]) < OrderValue(idx[l])
                   \/ /\ OrderValue(idx[k]) = OrderValue(idx[l])
                      /\ idx[k] < idx[l]

\* C3: the list read_bullet_section, read_work_experience and read_skills
\* return holds exactly the scanned rows that are included and non-empty
\* (each by its text, a leading glyph aside), ascending by order value, rows
\* of equal order value in their sheet row order.
C3_RowsSortedStably ==
    rd.fn # "none" =>
        \E idx \in [1..Cardinality(Qualifying) -> Qualifying] :
            /\ InClaimedOrder(idx)
            /\ Len(rd.rows) = Len(idx)
            /\ \A k \in 1..Len(idx) :
                  WithoutLeadingGlyph(rd.rows[k])
                      = WithoutLeadingGlyph(safe_str(sheet[idx[k]].text))

\* a reader returned three rows, two of them of one order value with
\* different texts, and the sort moved a row up
C3_Witness ==
    /\ rd.fn # "none"
    /\ Len(rd.rows) = 3
    /\ \E i, j \in Qualifying :
          /\ i < j
          /\ OrderValue(i) = OrderValue(j)
          /\ safe_str(sheet[i].text) # safe_str(sheet[j].text)
    /\ \E i, j \in Qualifying : i < j /\ OrderValue(j) < OrderValue(i)

\* C5: every bullet text a bullet reader stores, for the generic bullet
\* sections (read_bullet_section) and for the company bullets
\* (read_work_experience), is the text of a row with its leading bullet
\* glyph stripped.
C5_StoredBulletsAreStripped ==
    rd.fn \in {"read_bullet_section", "read_work_experience"} =>
        \A k \in 1..Len(rd.rows) :
            \E i \in Qualifying :
                rd.rows[k] = WithoutLeadingGlyph(safe_str(sheet[i].text))

-----------------------------------------------------------------------------
(* Claims about the style resolver, checked under DefaultsSpec *)

\* the rows of the Defaults sheet whose label is category c
RowsOf(c) == {i \in 1..Len(defws.rows) : safe_str(defws.rows[i].field) = c}

Last(S) == CHOOSE i \in S : \A j \in S : j <= i

\* the flag cell says Yes
SaysYes(flag) ==
    flag.kind = "str" /\ Strip(flag.s) \in CaseVariants(<<"y","e","s">>)

HasFont(i) == safe_str(defws.rows[i].font) # <<>>

\* row i holds a size (its cell is not blank) that parses as an integer
HasIntSize(i) ==
    /\ safe_str(defws.rows[i].size) # <<>>
    /\ PyInt(defws.rows[i].size).ok

\* what the rows of category c make of it, given which of them replace the
\* size: the last row's flags, the last font and the last size given
OverlaidBy(c, SizeRows) ==
    LET R == RowsOf(c)
        F == {i \in R : HasFont(i)}
        S == R \cap SizeRows
    IN  IF R = {} THEN styles.defaults[c] = defaults[c]
        ELSE /\ styles.defaults[c].bold = SaysYes(defws.rows[Last(R)].bold)
             /\ styles.defaults[c].italic = SaysYes(defws.rows[Last(R)].italic)
             /\ styles.defaults[c].font =
                    IF F = {} THEN defaults[c].font
                    ELSE Strip(defws.rows[Last(F)].font.s)
             /\ styles.defaults[c].size =
                    IF S = {} THEN defaults[c].size
                    ELSE PyInt(defws.rows[Last(S)].size).n

\* C9, as stated: for every Defaults row whose label is a style category the
\* font is replaced iff a font name is present, the size iff a size is
\* present and integer-parseable, bold and italic are always overwritten by
\* the row's flags; other categories and rows of another label change
\* nothing.
C9_OverlayAsStated ==
    (styles.fn = "read_defaults" /\ defws.kind = "sheet") =>
        /\ DOMAIN styles.defaults = DOMAIN defaults
        /\ \A c \in DOMAIN defaults :
              OverlaidBy(c, {i \in 1..Len(defws.rows) : HasIntSize(i)})

\* C9, amended: as stated, but the size is replaced iff a size is present,
\* is not the number 0 and is integer-parseable.
C9_OverlayUnlessZero ==
    (styles.fn = "read_defaults" /\ defws.kind = "sheet") =>
        /\ DOMAIN styles.defaults = DOMAIN defaults
        /\ \A c \in DOMAIN defaults :
              OverlaidBy(c, {i \in 1..Len(defws.rows) :
                                /\ HasIntSize(i)
                                /\ defws.rows[i].size # IntCell(0)})

\* read_defaults overlaid a row of Title that has a size and no font and
\* whose bold cell is blank: the size is the row's, the font the default,
\* bold is off
C9_Witness ==
    /\ styles.fn = "read_defaults"
    /\ defws.kind = "sheet"
    /\ RowsOf(Title) # {}
    /\ RowsOf(Location) # {}
    /\ defws.rows[Last(RowsOf(Title))].bold = NoneCell
    /\ styles.defaults[Title].size = 16
    /\ styles.defaults[Title].font = Calibri
    /\ ~styles.defaults[Title].bold

\* C10: read_defaults never raises, and when the Defaults sheet is absent or
\* cannot be read it returns exactly the embedded defaults of the 9
\* categories, none of them modified.
C10_FailOpenToEmbeddedDefaults ==
    styles.fn = "read_defaults" =>
        /\ ~styles.raised
        /\ defws.kind # "sheet" =>
              /\ Cardinality(DOMAIN styles.defaults) = 9
              /\ \A c \in DOMAIN styles.defaults :
                    /\ styles.defaults[c].font = Calibri
                    /\ styles.defaults[c].size \in 10..20
                    /\ styles.defaults[c] = defaults[c]

\* read_defaults returned for a workbook without a Defaults sheet
C10_Witness ==
    /\ styles.fn = "read_defaults"
    /\ defws.kind = "absent"
    /\ styles.defaults[Title] = Style(Calibri, 14, TRUE, FALSE)

\* C11: after read_defaults every one of the nine categories has a size that
\* is a positive integer; a zero or negative size cell never ends up in the
\* resolved styles.
C11_SizesArePositive ==
    styles.fn = "read_defaults" =>
        \A c \in DOMAIN styles.defaults : styles.defaults[c].size > 0

-----------------------------------------------------------------------------
(* Claims about the workbook's sheets, checked under GenSpec *)

Mandatory == {Contact_Info, Work_Roles, Work_Experience}

\* C7: if Contact_Info, Work_Roles or Work_Experience is missing from the
\* workbook, create_resume_from_file returns success=false with an error
\* text and no output paths, whatever the section order says.
C7_MissingMandatorySheetIsFatal ==
    (gen.fn = "create_resume_from_file" /\ ~(Mandatory \subseteq wb.sheets)) =>
        /\ ~gen.result.success
        /\ gen.result.error # NoError
        /\ ~gen.result.docx_path
        /\ ~gen.result.pdf_path

\* C8: the absence of sheets other than Contact_Info, Work_Roles and
\* Work_Experience never makes the generation fail, also when the missing
\* section is listed in the section order.
C8_MissingOptionalSheetIsNoError ==
    (gen.fn = "create_resume_from_file" /\ Mandatory \subseteq wb.sheets) =>
        /\ gen.result.success
        /\ gen.result.error = NoError

\* the rows of the Order sheet before the first row with a blank section name
OrderRowsRead ==
    LET blank == {i \in 1..Len(wb.order) : safe_str(wb.order[i].name) = <<>>}
    IN  IF blank = {} THEN wb.order
        ELSE SubSeq(wb.order, 1, (CHOOSE i \in blank : \A j \in blank : i <= j) - 1)

IsEnabledRow(r) ==
    /\ default_include(r.inc) = "Yes"
    /\ safe_str(r.name) \in KnownSections

\* the sections of the enabled rows, in row order
EnabledSections ==
    LET enabled == SelectSeq(OrderRowsRead, IsEnabledRow)
    IN  [i \in 1..Len(enabled) |-> safe_str(enabled[i].name)]

Generated == gen.fn = "create_resume_from_file" /\ gen.result.success

-----------------------------------------------------------------------------
(* Claims about the file name, checked under NameSpec *)

\* the rows of the Contact_Info sheet that give the contact its Name: the
\* field is Name, the row is included and its value is not blank
NameRows ==
    {i \in 1..Len(wb.contact) :
        /\ safe_str(wb.contact[i].field) = NameField
        /\ default_include(wb.contact[i].inc) = "Yes"
        /\ safe_str(wb.contact[i].value) # <<>>}

\* the whitespace-separated tokens of the contact's Name
NameTokens ==
    split(PyStr(wb.contact[CHOOSE i \in NameRows : \A j \in NameRows : j <= i].value))

\* C13: a Name of at least two whitespace-separated tokens gives the base
\* file name "<first token>_<last token>", a Name of one token gives that
\* token, a missing or excluded Name gives "Resume"; the base file name
\* never contains a space.
C13_BaseFilenameFromName ==
    Generated =>
        /\ gen.result.name =
              IF NameRows = {} THEN ResumeText
              ELSE IF Len(NameTokens) >= 2
                   THEN NameTokens[1] \o <<"_">> \o NameTokens[Len(NameTokens)]
                   ELSE NameTokens[1]
        /\ \A i \in 1..Len(gen.result.name) : gen.result.name[i] # " "

\* a generation for a Name of three tokens
C13_Witness ==
    /\ Generated
    /\ NameRows # {}
    /\ Len(NameTokens) = 3
    /\ gen.result.name = <<"A","n","n","_","L","e","e">>


-----------------------------------------------------------------------------
(* Claims about the requests of the API, checked under ApiSpec *)

Served(r) ==
    /\ reqs[r].endpoint = "/generate"
    /\ reqs[r].state = "answered"
    /\ reqs[r].response.status = 200

\* C14: any two generation requests get distinct output file names, also
\* two requests for the same contact name that run at the same time.
C14_FilenamesAreUnique ==
    \A r1, r2 \in DOMAIN reqs :
        (r1 # r2 /\ Served(r1) /\ Served(r2)) =>
            reqs[r1].result.filename # reqs[r2].result.filename

\* C22: requests that are handled at the same time do not interfere: the
\* file_id returned to a request maps in the file registry to the files that
\* this request produced, in its own temporary directory, and no request's
\* entry is overwritten by another request.
C22_RegistryEntryIsOwn ==
    \A r \in DOMAIN reqs :
        Served(r) =>
            /\ reqs[r].response.file_id \in DOMAIN file_storage
            /\ \A t \in reqs[r].response.files :
                  file_storage[reqs[r].response.file_id][t].dir = r

\* C28: once a request to /generate or /generate-preview is answered, with
\* success or with an error, the input spreadsheet it wrote to its temporary
\* directory is removed, and a removal that fails never makes the answer an
\* error.
C28_InputRemovedWhenAnswered ==
    \A r \in DOMAIN reqs :
        reqs[r].state = "answered" =>
            /\ ~reqs[r].input \/ ~env.remove_ok
            /\ (reqs[r].excel /\ ~env.remove_ok
                    /\ reqs[r].endpoint = "/generate-preview") =>
                  reqs[r].response.status = 200

-----------------------------------------------------------------------------
(* Claims about the output files and the conversion, checked under         *)
(* ConvSpec                                                                *)

GenerationCalled == gen.fn = "create_resume_from_file"

\* the document is assembled and, where a format is requested, saved
DocumentSaved ==
    /\ wb.valid
    /\ \A i \in 1..Len(Lookups(wb)) : Lookups(wb)[i] \in wb.sheets
    /\ env.save_ok

\* the ways the conversion fails
KeyMissing == ~env.api_key
JobRefused == env.api_key /\ env.create = "500"
UploadRefused == env.api_key /\ env.create = "201" /\ env.upload = "fail"
Polled == env.api_key /\ env.create = "201" /\ env.upload = "ok"
JobError == Polled /\ env.poll_at <= PollAttempts /\ env.poll = "error"
TimedOut == Polled /\ env.poll_at > PollAttempts
JobFinished == Polled /\ env.poll_at <= PollAttempts /\ env.poll = "finished"
ExceptionRaised ==
    \/ env.api_key /\ env.create = "raise"
    \/ env.api_key /\ env.create = "201" /\ env.upload = "raise"
    \/ Polled /\ env.poll_at <= PollAttempts /\ env.poll = "raise"
    \/ JobFinished /\ env.download = "raise"

ConversionFails ==
    KeyMissing \/ JobRefused \/ UploadRefused \/ JobError \/ TimedOut
        \/ ExceptionRaised

\* C15: however the conversion to PDF fails (credential missing, job not
\* created, upload refused, status 'error', no terminal status within the
\* polls, any exception), create_resume_from_file returns success=true with
\* no pdf_path and no error.
C15_ConversionFailureIsNotFatal ==
    (GenerationCalled /\ gen.generate_pdf /\ DocumentSaved /\ ConversionFails) =>
        /\ gen.result.success
        /\ ~gen.result.pdf_path
        /\ gen.result.error = NoError

\* a generation whose conversion timed out
C15_Witness ==
    /\ GenerationCalled /\ gen.generate_pdf /\ DocumentSaved
    /\ TimedOut
    /\ gen.result.success
    /\ ~gen.result.pdf_path

\* C16: a successful result has a docx_path exactly when the docx was
\* requested, whatever became of the PDF; a request for the PDF alone with
\* the credential unset returns success=true with neither path.
C16_DocxPathIffRequested ==
    /\ Generated => (gen.result.docx_path <=> gen.generate_docx)
    /\ (GenerationCalled /\ DocumentSaved /\ KeyMissing
          /\ gen.generate_pdf /\ ~gen.generate_docx) =>
            /\ gen.result.success
            /\ ~gen.result.pdf_path
            /\ ~gen.result.docx_path

\* a request for the PDF alone with the credential unset
C16_Witness ==
    /\ Generated /\ KeyMissing
    /\ gen.generate_pdf /\ ~gen.generate_docx
    /\ ~gen.result.docx_path /\ ~gen.result.pdf_path

\* C17: the docx is saved whenever a format is requested; when the PDF alone
\* was requested and the conversion succeeded the docx is removed before the
\* return (a removal that fails is ignored and leaves the result as it is);
\* when the docx was requested it is never removed.
C17_IntermediateDocxIsRemoved ==
    Generated =>
        /\ (gen.generate_pdf \/ gen.generate_docx) =>
               (gen.result.docx_file \/ gen.result.remove_tried)
        /\ (gen.generate_pdf /\ ~gen.generate_docx /\ gen.result.pdf_path) =>
               /\ gen.result.remove_tried
               /\ gen.result.docx_file <=> ~env.remove_ok
               /\ ~gen.result.docx_path
               /\ gen.result.error = NoError
        /\ gen.generate_docx =>
               /\ ~gen.result.remove_tried
               /\ gen.result.docx_file

\* the PDF alone was requested, the conversion succeeded and the removal of
\* the docx failed
C17_Witness ==
    /\ Generated
    /\ gen.generate_pdf /\ ~gen.generate_docx
    /\ gen.result.pdf_path
    /\ ~env.remove_ok
    /\ gen.result.docx_file

Count(calls, c) == Cardinality({i \in 1..Len(calls) : calls[i] = c})

\* C18: the conversion creates the job, uploads, polls and downloads in this
\* order; it polls at most 30 times and never after a poll that answered
\* 'finished' or 'error'; it downloads only after 'finished'; when none of
\* the 30 polls answers a terminal status the result has no pdf_path.
C18_PollingProtocol ==
    (GenerationCalled /\ gen.generate_pdf) =>
        LET calls == gen.result.calls
            polls == Count(calls, "poll")
        IN  /\ \A i \in 1..Len(calls) :
                  /\ calls[i] = "create_job" <=> i = 1
                  /\ calls[i] = "upload" <=> i = 2
                  /\ calls[i] = "download" =>
                         /\ i = Len(calls)
                         /\ calls[i - 1] = "poll"
                         /\ JobFinished
                         /\ polls = env.poll_at
            /\ polls <= PollAttempts
            /\ (polls > 0 /\ env.poll \in {"finished", "error"}) =>
                   polls <= env.poll_at
            /\ (polls > 0 /\ TimedOut) =>
                   /\ polls = PollAttempts
                   /\ ~gen.result.pdf_path

\* a conversion that finished at the last of the polls
C18_Witness ==
    /\ GenerationCalled /\ gen.generate_pdf
    /\ Count(gen.result.calls, "poll") = PollAttempts
    /\ JobFinished
    /\ gen.result.pdf_path

\* C19: create_resume_from_file and preview_resume_content return a result
\* for every call: success=true without an error, or success=false with an
\* error text; the result of a failed generation has no output path.
C19_StructuredResults ==
    /\ GenerationCalled =>
           \/ gen.result.success /\ gen.result.error = NoError
           \/ /\ ~gen.result.success
              /\ gen.result.error # NoError
              /\ ~gen.result.docx_path
              /\ ~gen.result.pdf_path
    /\ preview.fn = "preview_resume_content" =>
           \/ preview.result.success /\ preview.result.error = NoError
           \/ ~preview.result.success /\ preview.result.error # NoError

\* a generation that failed at saving the docx, and the preview of the same
\* workbook, which succeeded
C19_Witness ==
    /\ GenerationCalled
    /\ wb = TemplateWorkbook /\ gen.generate_docx /\ ~env.save_ok
    /\ ~gen.result.success
    /\ gen.result.error = SaveErrorText
    /\ preview.fn = "preview_resume_content"
    /\ preview.result.success


-----------------------------------------------------------------------------
(* Claims about the roles, checked under RolesSpec *)

\* the rows of the Work_Roles sheet up to the first blank company whose
\* inclusion flag reads yes or y
CountedRoles ==
    {i \in 1..Len(wb.roles) :
        /\ \A j \in 1..i : safe_str(wb.roles[j].company) # <<>>
        /\ wb.roles[i].inc.kind = "str"
        /\ Strip(wb.roles[i].inc.s) \in YesTexts}

-----------------------------------------------------------------------------
(* Claims about the builders, checked under BuildSpec *)

\* the paragraphs the builder appended
Appended == SubSeq(doc.paragraphs, Len(doc.before) + 1, Len(doc.paragraphs))

\* the first paragraph of a role: the company and, behind a tab, the dates
IsRoleHead(p) ==
    p.style = "Normal" /\ Len(p.runs) = 2 /\ p.runs[2] # <<>> /\ p.runs[2][1] = "\t"

IsBullet(p) == p.style = "List Bullet"

\* the roles and bullets of the appended paragraphs, in their order: the
\* company of each role and the text of each bullet
Outline ==
    LET marked == SelectSeq(Appended, LAMBDA p : IsRoleHead(p) \/ IsBullet(p))
    IN  [k \in 1..Len(marked) |->
            [role |-> IsRoleHead(marked[k]),
             text |-> WithoutLeadingGlyph(marked[k].runs[1])]]

\* the company cell of row i of the experience sheet is the name: as it
\* stands, or with the whitespace around it removed
CompanyIs(i, name, trimmed) ==
    IF trimmed THEN safe_str(sheet[i].comp) = name
    ELSE PyStr(sheet[i].comp) = name

\* the bullets of a company: the included, non-empty rows of the experience
\* sheet whose company cell is the name, ascending by order value, rows of
\* one order value in row order
BulletsOf(name, trimmed) ==
    LET rows == {i \in 1..Len(sheet) :
                    CompanyIs(i, name, trimmed) /\ Included(i) /\ NonEmpty(i)}
        Before(j, i) == \/ OrderValue(j) < OrderValue(i)
                        \/ OrderValue(j) = OrderValue(i) /\ j < i
        At(k) == CHOOSE i \in rows :
                    Cardinality({j \in rows : Before(j, i)}) = k - 1
    IN  [k \in 1..Cardinality(rows) |->
            [role |-> FALSE,
             text |-> WithoutLeadingGlyph(safe_str(sheet[At(k)].text))]]

\* each included role from row i on, followed by the bullets of its company
RECURSIVE RolesWithBullets(_, _)
RolesWithBullets(i, trimmed) ==
    IF i > Len(wb.roles) THEN <<>>
    ELSE (IF i \in CountedRoles
          THEN <<[role |-> TRUE, text |-> safe_str(wb.roles[i].company)]>>
               \o BulletsOf(safe_str(wb.roles[i].company), trimmed)
          ELSE <<>>) \o RolesWithBullets(i + 1, trimmed)

\* C21 (as stated): every included role, also when several share a company
\* name, is rendered with the included, non-empty bullets of the experience
\* sheet whose company cell equals its company name exactly, ascending by
\* order value, and with no other bullet.
C21_BulletsOfExactlyEqualCompany ==
    doc.fn = "build_work_experience" => Outline = RolesWithBullets(1, FALSE)

\* C21 (amended): every included role, also when several share a company
\* name, is rendered with the included, non-empty bullets of the experience
\* sheet whose company cell, with the whitespace around it removed, equals
\* its company name (case counts), ascending by order value, and with no
\* other bullet.
C21_BulletsOfTrimmedEqualCompany ==
    doc.fn = "build_work_experience" => Outline = RolesWithBullets(1, TRUE)

\* two included roles at Acme, each rendered with the two bullets of Acme in
\* the order of their order values
C21_Witness ==
    /\ doc.fn = "build_work_experience"
    /\ Len(Outline) = 6
    /\ \A k \in {1, 4} :
          /\ Outline[k] = [role |-> TRUE, text |-> Acme]
          /\ Outline[k + 1] = [role |-> FALSE, text |-> <<"a">>]
          /\ Outline[k + 2] = [role |-> FALSE, text |-> <<"b">>]


\* the spacers among the appended paragraphs: the paragraphs without a run
Spacers == SelectSeq(Appended, LAMBDA p : p.runs = <<>>)

\* C23: for N >= 1 included roles the work-experience section holds exactly
\* N - 1 spacers, one between each pair of neighbouring roles and none after
\* the last, also when two roles are the same in every field.
C23_SpacerBetweenRoles ==
    (doc.fn = "build_work_experience" /\ CountedRoles # {}) =>
        Len(Spacers) = Cardinality(CountedRoles) - 1

\* the contact map that the header is built from
Contact == read_contact_info(wb.contact)

HasAny(fields) == \E f \in fields : f \in DOMAIN Contact

\* the lines of the header that have content
HeaderLines ==
    (IF HasAny({NameField, CredentialsField}) THEN 1 ELSE 0)
    + (IF HasAny({Title}) THEN 1 ELSE 0)
    + (IF HasAny({EmailField, PhoneField, LinkedInField, WebsiteField,
                   CityField, StateField, CountryField}) THEN 1 ELSE 0)

\* a paragraph without text: it has no run, or only runs of no text
IsEmpty(p) == \A k \in DOMAIN p.runs : p.runs[k] = <<>>

\* C24: the contact header holds one paragraph for each of its three lines
\* (name and credentials, title, contact details) that has content, none for
\* a line without content, and never an empty paragraph.
C24_HeaderOmitsEmptyLines ==
    doc.fn = "build_contact_header" =>
        /\ Len(Appended) = HeaderLines
        /\ \A k \in DOMAIN Appended : ~IsEmpty(Appended[k])

\* the builder that ran was given an empty input: an empty contact map, no
\* summary, no bullet, no role, no education record or no category of skills
EmptyInput ==
    \/ doc.fn = "build_contact_header" /\ DOMAIN Contact = {}
    \/ doc.fn = "build_summary" /\ read_summary(wb.summary) = <<>>
    \/ doc.fn = "build_bullet_section" /\ read_bullet_section(sheet) = <<>>
    \/ doc.fn = "build_work_experience" /\ read_work_roles(wb.roles) = <<>>
    \/ doc.fn = "build_education" /\ read_education(wb.education) = <<>>
    \/ doc.fn = "build_skills" /\ Categories(wb.skills) = <<>>

\* C25: a builder that is given an empty input appends no paragraph, not even
\* a section header: the document is as it was before.
C25_BuildersEmitNothingOnEmptyInput ==
    EmptyInput => doc.paragraphs = doc.before

-----------------------------------------------------------------------------
(* Claims about the education section, checked under BuildSpec *)

\* the education records the section is built from
EducationRecords == read_education(wb.education)

\* the date text of a record with the given graduated flag and end date
ClaimedDateText(graduated, end_date) ==
    CASE graduated \in CaseVariants(<<"y","e","s">>) ->
            <<"G","r","a","d","u","a","t","e","d"," ">> \o end_date
      [] graduated \in CaseVariants(<<"n","o">>) /\ end_date # <<>> ->
            <<"A","n","t","i","c","i","p","a","t","e","d"," ">> \o end_date
      [] graduated \in CaseVariants(<<"n","o">>) /\ end_date = <<>> ->
            <<"I","n"," ","P","r","o","g","r","e","s","s">>
      [] OTHER -> end_date

\* the school row of the k-th record: the paragraph after the header and the
\* two paragraphs of each record before it
SchoolRow(k) == Appended[2 * k]

\* C27: the school row of every education record ends with a date run that
\* reads "Graduated <end date>" if graduated is Yes in any case,
\* "Anticipated <end date>" if graduated is No and there is an end date,
\* "In Progress" if graduated is No and there is no end date, and the end
\* date as it is otherwise; if that text is empty the row has no date run.
C27_EducationDateText ==
    doc.fn = "build_education" =>
        \A k \in 1..Len(EducationRecords) :
            LET edu  == EducationRecords[k]
                text == ClaimedDateText(edu.graduated, edu.end_date)
            IN  /\ SchoolRow(k).runs[1] = edu.school
                /\ IF text = <<>> THEN Len(SchoolRow(k).runs) = 1
                   ELSE SchoolRow(k).runs = <<edu.school, <<"\t">> \o text>>

\* a record with graduated No and no end date is rendered "In Progress", and
\* one without a graduated flag and without an end date has no date run
C27_Witness ==
    /\ doc.fn = "build_education"
    /\ Len(EducationRecords) = 2
    /\ EducationRecords[1].graduated = <<"N","o">>
    /\ EducationRecords[1].end_date = <<>>
    /\ SchoolRow(1).runs[2] = <<"\t","I","n"," ","P","r","o","g","r","e","s","s">>
    /\ EducationRecords[2].graduated = <<>>
    /\ EducationRecords[2].end_date = <<>>
    /\ Len(SchoolRow(2).runs) = 1

-----------------------------------------------------------------------------
(* Claims about the end of the scans, checked under ScanSpec *)

\* the rows above the first row whose key is blank
AboveFirstBlank(keys) ==
    {i \in 1..Len(keys) : \A j \in 1..i : safe_str(keys[j]) # <<>>}

FlagIsYes(flag) == flag.kind = "str" /\ Strip(flag.s) \in YesTexts

\* the number of rows a reader returns if a blank key ends its scan: the
\* filled rows above the first blank key that it does not leave out
RowsToFirstBlank ==
    CASE rd.fn = "read_work_roles" ->
            {i \in AboveFirstBlank([k \in DOMAIN wb.roles |-> wb.roles[k].company]) :
                FlagIsYes(wb.roles[i].inc)}
      [] rd.fn = "read_education" ->
            AboveFirstBlank([k \in DOMAIN wb.education |-> wb.education[k].school])
      [] rd.fn = "read_bullet_section" ->
            {i \in AboveFirstBlank([k \in DOMAIN sheet |-> sheet[k].text]) :
                FlagIsYes(sheet[i].inc)}
      [] rd.fn = "read_section_order" ->
            {i \in AboveFirstBlank([k \in DOMAIN wb.order |-> wb.order[k].name]) :
                FlagIsYes(wb.order[i].inc)}

\* the rows a reader returns if it scans its whole range: the included rows
\* with text, of the company asked for
RowsOfWholeRange ==
    {i \in 1..Len(sheet) :
        /\ FlagIsYes(sheet[i].inc)
        /\ safe_str(sheet[i].text) # <<>>
        /\ rd.fn = "read_work_experience" => safe_str(sheet[i].comp) = company}

\* C26: read_work_roles, read_education, read_bullet_section and
\* read_section_order return no row at or after the first row whose key
\* (company, school, bullet text, section name) is blank, and every row above
\* it that they do not leave out; read_work_experience and read_skills return
\* every qualifying row of their range, also the ones that follow blank rows.
C26_BlankKeyEndsTheScan ==
    /\ rd.fn \in {"read_work_roles", "read_education", "read_bullet_section",
                  "read_section_order"} =>
          Len(rd.rows) = Cardinality(RowsToFirstBlank)
    /\ rd.fn \in {"read_work_experience", "read_skills"} =>
          Len(rd.rows) = Cardinality(RowsOfWholeRange)

\* read_bullet_section returns the one bullet above a blank row and not the
\* included bullet below it
C26_Witness ==
    /\ rd.fn = "read_bullet_section"
    /\ Len(sheet) >= 3
    /\ sheet[1] = Row(Acme, StrCell(<<"a">>), Yes, IntCell(2))
    /\ sheet[2] = Row(Acme, NoneCell, Yes, IntCell(1))
    /\ sheet[3] = Row(Beta, StrCell(<<"c">>), Yes, IntCell(1))
    /\ rd.rows = <<<<"a">>>>

-----------------------------------------------------------------------------
(* Claims about the usage limits, checked under UsageSpec *)

\* the check_usage calls that are answered from the rows of the table
CheckedCalls ==
    {c \in DOMAIN ru : /\ ru[c].op = "check_usage" /\ ru[c].pc = "done"
                       /\ ru[c].answer.success /\ env.supabase}

\* the row a check was answered from holds a generation of the day of the
\* check
GeneratedThatDay(c) ==
    /\ ru[c].data # <<>>
    /\ ru[c].data[1].last_generation_date = IsoDate(ru[c].at)

\* C29: check_usage denies a free user with reason daily_limit only if a
\* generation of that user is recorded on the current date; a free user whose
\* last recorded generation is of an earlier day and who has fewer than 5
\* generations in the month is allowed.
C29_DailyLimitIsPerDay ==
    \A c \in CheckedCalls :
        /\ ru[c].answer.reason = "daily_limit" => GeneratedThatDay(c)
        /\ (/\ ru[c].data # <<>>
            /\ ru[c].data[1].subscription_status = "free"
            /\ ~GeneratedThatDay(c)
            /\ ru[c].data[1].generations_month < 5) => ru[c].answer.can_generate

\* the record_usage calls for user u that have completed successfully
Recorded(u) ==
    {c \in DOMAIN ru : /\ ru[c].op = "record_usage" /\ ru[c].user_id = u
                       /\ ru[c].pc = "done" /\ ru[c].answer.success}

\* C30: once n >= 1 record_usage calls for a user have completed
\* successfully, in whatever way they were interleaved, the table holds
\* exactly one row of the user and its generations_month is n (the table is
\* empty at the beginning).
C30_NoUpdateLost ==
    \A u \in {User1, User2} :
        (env.supabase /\ Recorded(u) # {}) =>
            /\ Len(Select(u)) = 1
            /\ Select(u)[1].generations_month = Cardinality(Recorded(u))

=============================================================================
